---- MODULE Spec2Model ----
(***************************************************************************)
(* Order intake and tracking bot (the index.js of lines 554-1240 of        *)
(* src/unnamed/part_000): the orders cache, orders.json, and the handlers  *)
(* that read and mutate them (POST /inquiry, the owner's chat commands,    *)
(* the accept / decline buttons).                                          *)
(*                                                                         *)
(* Scheduling.  Node runs one continuation at a time; a handler gives up   *)
(* the processor only at an await of real I/O (fs.readFile, fs.writeFile,  *)
(* a call to the chat platform).  An await of an already settled promise   *)
(* (loadOrders answering from the cache) resumes in the same macrotask.    *)
(* So each action below is one run-to-completion segment of a handler,     *)
(* from one I/O completion to the start of the next I/O.                   *)
(*                                                                         *)
(* Arrays.  loadOrders assigns the array it returns to ordersCache before  *)
(* returning, and saveOrders assigns its argument to ordersCache; a        *)
(* handler mutates its array and calls saveOrders in the same segment, so  *)
(* at the end of every segment the array a handler has just mutated IS the *)
(* object ordersCache refers to.  The cache is therefore modelled by its   *)
(* value, and in-place mutation by an update of that value.                *)
(***************************************************************************)
EXTENDS Integers, Sequences, FiniteSets, TLC

----------------------------------------------------------------------------
(* Bounds of the model *)

MaxOps == 2         \* requests started in one behaviour
MaxLen == 3         \* orders in a collection a lookup is applied to

(* Program constants.  MAX_ORDERS_MEMORY is 500 and CACHE_TTL 30 s in the   *)
(* source; the model scales the cap to 2 orders and counts time in units of *)
(* 30 s, which keeps "over the cap" and "older than the TTL" reachable.     *)
MAX_ORDERS_MEMORY == 2
CACHE_TTL         == 1

(* Time.  The code compares instants only in now - lastOrdersLoad <         *)
(* CACHE_TTL, so instants are kept relative to the present: Date.now() is   *)
(* always CACHE_TTL, and when time passes (Tick) every remembered instant   *)
(* moves one unit into the past, down to 0, where it is a TTL old or more.  *)
(* The ISO timestamps stored in orders (createdAt, paidAt) are logical: the *)
(* number of the request that took them.                                    *)
now == CACHE_TTL

Handlers   == 1..MaxOps                      \* one handler per request
Submitters == {"s1"}                          \* clientDiscordId values
UuidPool   == {<<2, 1>>, <<1, 3>>}            \* values randomUUID can return
Prefixes   == {<<1>>, <<2, 1>>}               \* args[1] of a command
StatusTexts == {"Done"}                       \* args.slice(2) of !setstatus
NoteTexts   == {"x"}                          \* args.slice(2) of !note

Null    == <<>>          \* JavaScript null / undefined
Some(x) == <<x>>         \* a non-null value

VARIABLES
  file,            \* text of orders.json (meaningful when fileExists)
  fileExists,      \* FALSE until the first write creates orders.json
  ordersCache,     \* Null, or Some(array of orders)
  lastOrdersLoad,  \* time of the last load / save, 0 at boot
  hs,              \* hs[h]: the handler of request h (position and locals)
  out,             \* what the last step sent to a caller (NoOut: nothing)
  usedUuids,       \* uuids randomUUID has returned so far
  nOps,            \* requests started so far
  written,         \* history: the mutations whose fs.writeFile resolved
  currentStatus,   \* availability: "open", "slow" or "closed"
  configFile,      \* the channel id loadConfig() yields (Null: none configured)
  workFile,        \* entries of work.json (empty: file missing or no entry)
  event,           \* Null, or Some(the last message or button press handled)
  foreign,         \* Null, or Some(a change another writer made to orders.json)
  visits,          \* the visit counter: visits.json, the limiter, the history
  proc,            \* the process: its BOT_TOKEN and how far its start has come
  call,            \* a function applied on its own: its name and arguments
  ret              \* Null, or Some(what the function of call returned)

vars == <<file, fileExists, ordersCache, lastOrdersLoad, hs, out,
          usedUuids, nOps, written, currentStatus, configFile, workFile,
          event, foreign, visits, proc, call, ret>>

\* What the handlers of orders leave alone.
aux == <<currentStatus, configFile, workFile, event, foreign, visits, proc,
         call, ret>>

----------------------------------------------------------------------------
(* Orders and pure helpers *)

\* The order record POST /inquiry pushes.  ops is a history field (not in the
\* code): the ids of the requests that wrote to this order.
NewOrder(uuid, clientDiscordId, createdAt, op) ==
  [ uuid            |-> uuid,
    status          |-> "Pending",
    payment         |-> "Unpaid",
    clientDiscordId |-> clientDiscordId,
    createdAt       |-> createdAt,
    paidAt          |-> Null,
    notes           |-> "",
    ops             |-> {op} ]

\* JSON.stringify(orders, null, 2): each object becomes its list of members.
Stringify(orders) ==
  [ i \in 1..Len(orders) |->
      << orders[i].uuid, orders[i].status, orders[i].payment,
         orders[i].clientDiscordId, orders[i].createdAt, orders[i].paidAt,
         orders[i].notes, orders[i].ops >> ]

\* JSON.parse(data): the members become fields again.
Parse(data) ==
  [ i \in 1..Len(data) |->
      [ uuid            |-> data[i][1],
        status          |-> data[i][2],
        payment         |-> data[i][3],
        clientDiscordId |-> data[i][4],
        createdAt       |-> data[i][5],
        paidAt          |-> data[i][6],
        notes           |-> data[i][7],
        ops             |-> data[i][8] ] ]

\* orders.slice(-MAX_ORDERS_MEMORY) when orders.length > MAX_ORDERS_MEMORY
Cap(orders) ==
  IF Len(orders) > MAX_ORDERS_MEMORY
  THEN SubSeq(orders, Len(orders) - MAX_ORDERS_MEMORY + 1, Len(orders))
  ELSE orders

\* Lower case of a character.
Lower(c) == CASE c = "A" -> "a" [] c = "B" -> "b" [] c = "C" -> "c" [] OTHER -> c

\* Mutant of StartsWith: the comparison ignores case.
StartsWithIgnoreCase(s, p) ==
  /\ Len(p) <= Len(s)
  /\ \A i \in 1..Len(p) : Lower(s[i]) = Lower(p[i])

\* o.uuid.startsWith(arg)
StartsWith(s, p) == Len(p) <= Len(s) /\ SubSeq(s, 1, Len(p)) = p

\* Mutant of FindIndex: with no match the first order is taken.
FindIndexOrFirst(orders, arg) ==
  LET hits == { i \in 1..Len(orders) : StartsWith(orders[i].uuid, arg) }
  IN  IF hits = {} THEN (IF Len(orders) > 0 THEN 1 ELSE 0)
      ELSE CHOOSE i \in hits : \A j \in hits : i <= j

\* orders.findIndex(o => o.uuid.startsWith(arg)); 0 stands for -1
FindIndex(orders, arg) ==
  LET hits == { i \in 1..Len(orders) : StartsWith(orders[i].uuid, arg) }
  IN  IF hits = {} THEN 0 ELSE CHOOSE i \in hits : \A j \in hits : i <= j

\* orders.find(o => o.uuid.startsWith(arg)) of !order: the first order, from
\* the front, whose uuid starts with arg (Null: undefined).
RECURSIVE FindFrom(_, _, _)
FindFrom(orders, arg, i) ==
  IF i > Len(orders) THEN Null
  ELSE IF StartsWith(orders[i].uuid, arg) THEN Some(orders[i])
  ELSE FindFrom(orders, arg, i + 1)

Find(orders, arg) == FindFrom(orders, arg, 1)

\* Mutant of FindLatestPending: the scan runs from the oldest order.
FindFirstPending(orders, discordId) ==
  LET hits == { i \in 1..Len(orders) :
                  orders[i].clientDiscordId = discordId
                  /\ orders[i].status = "Pending" }
  IN  IF hits = {} THEN 0 ELSE CHOOSE i \in hits : \A j \in hits : i <= j

\* the scan of interactionCreate: last index with this submitter and "Pending"
FindLatestPending(orders, discordId) ==
  LET hits == { i \in 1..Len(orders) :
                  orders[i].clientDiscordId = discordId
                  /\ orders[i].status = "Pending" }
  IN  IF hits = {} THEN 0 ELSE CHOOSE i \in hits : \A j \in hits : i >= j

Uuids(orders) == { orders[i].uuid : i \in 1..Len(orders) }

\* Mutant of Push: unshift instead of push.
PushFront(orders, order) == <<order>> \o orders

\* orders.push({...}) of POST /inquiry
Push(orders, order) == Append(orders, order)

\* Mutant of SetPayment: !unpaid leaves paidAt as it was.
SetPaymentKeepsPaidAt(orders, idx, cmd, t, op) ==
  [ orders EXCEPT ![idx].payment = IF cmd = "paid" THEN "Paid" ELSE "Unpaid",
                  ![idx].paidAt  = IF cmd = "paid" THEN Some(t) ELSE @,
                  ![idx].ops     = @ \cup {op} ]

\* !paid / !unpaid: orders[idx].payment and orders[idx].paidAt
SetPayment(orders, idx, cmd, t, op) ==
  [ orders EXCEPT ![idx].payment = IF cmd = "paid" THEN "Paid" ELSE "Unpaid",
                  ![idx].paidAt  = IF cmd = "paid" THEN Some(t) ELSE Null,
                  ![idx].ops     = @ \cup {op} ]

\* Mutant of SetStatus: the status is given to every order.
SetStatusEverywhere(orders, idx, status, op) ==
  [ i \in 1..Len(orders) |->
      [ orders[i] EXCEPT !.status = status, !.ops = @ \cup {op} ] ]

\* !setstatus: orders[idx].status = status
SetStatus(orders, idx, status, op) ==
  [ orders EXCEPT ![idx].status = status, ![idx].ops = @ \cup {op} ]

\* Mutant of SetNote: the note also stamps the order with the time of the
\* request.
SetNoteStamps(orders, idx, note, op) ==
  [ orders EXCEPT ![idx].notes = note, ![idx].createdAt = op,
                  ![idx].ops = @ \cup {op} ]

\* !note: orders[idx].notes = note
SetNote(orders, idx, note, op) ==
  [ orders EXCEPT ![idx].notes = note, ![idx].ops = @ \cup {op} ]

\* Mutant of Decide: the decision is applied to every Pending order.
DecideAllPending(orders, idx, action, op) ==
  [ i \in 1..Len(orders) |->
      IF orders[i].status = "Pending"
      THEN [ orders[i] EXCEPT !.status = IF action = "accept" THEN "Accepted"
                                                               ELSE "Declined",
                              !.ops    = @ \cup {op} ]
      ELSE orders[i] ]

\* accept / decline button: orders[idx].status
Decide(orders, idx, action, op) ==
  [ orders EXCEPT ![idx].status = IF action = "accept" THEN "Accepted"
                                                         ELSE "Declined",
                  ![idx].ops    = @ \cup {op} ]

----------------------------------------------------------------------------
(* Handlers *)

Commands == {"paid", "unpaid", "setstatus", "note", "orders"}
Buttons  == {"accept", "decline"}
ChatOps  == {"paid", "unpaid", "setstatus", "note"}

\* A handler that has not started, or has returned.
Idle == [ pc |-> "idle", op |-> "none", id |-> 0, arg |-> Null, who |-> "",
          val |-> "", uuid |-> Null, t0 |-> 0, content |-> <<>> ]

\* The step sent nothing.
NoOut == [ op |-> "none", id |-> 0, uuid |-> Null, resp |-> "none",
           thrown |-> "", text |-> <<>> ]

\* Handler r answers its caller with resp (res.json, msg.reply,
\* interaction.update / reply).  text holds the words of an error body where
\* the handler computes them from the error it caught.
Reply(r, resp) ==
  [ op |-> r.op, id |-> r.id, uuid |-> r.uuid, resp |-> resp, thrown |-> "",
    text |-> <<>> ]

\* Handler r ends on the rejection of `what`: resp is what its catch block
\* sends, "none" when nothing catches the rejection.
Threw(r, what, resp) == [ Reply(r, resp) EXCEPT !.thrown = what ]

\* An entry of the history: request id (kind op) changed order uuid.
Wrote(uuid, id, op) == [ uuid |-> uuid, id |-> id, op |-> op ]

\* Two orders left in orders.json by an earlier run of the program.
Old1 == NewOrder(<<1, 1>>, "s1", 0, 0)
Old2 == [ NewOrder(<<1, 2>>, "s1", 0, 0) EXCEPT
            !.status = "Accepted", !.payment = "Paid", !.paidAt = Some(0) ]

\* Boot: the first run (no orders.json yet), or a later one.
Boot ==
  /\ \/ file = <<>> /\ fileExists = FALSE
     \/ file = Stringify(<<Old1, Old2>>) /\ fileExists = TRUE
  /\ ordersCache = Null
  /\ lastOrdersLoad = 0
  /\ hs = [ h \in Handlers |-> Idle ]
  /\ out = NoOut
  /\ usedUuids = {}
  /\ nOps = 0
  /\ written = IF fileExists
               THEN << Wrote(Old1.uuid, 0, "inquiry"),
                       Wrote(Old2.uuid, 0, "inquiry") >>
               ELSE <<>>
  /\ currentStatus = "open"
  /\ workFile = <<>>
  /\ event = Null
  /\ foreign = Null
  /\ visits = [ count |-> 0, limited |-> {}, answered |-> 0 ]

\* The channel an earlier !setchannel (or INQUIRY_CHANNEL_ID) has configured.
OldChannel == "c0"

\* The process has BOT_TOKEN, its login has resolved and app.listen was
\* called (lines 1238-1239).
Listening == [ token |-> TRUE, loggedIn |-> TRUE, phase |-> "listening" ]

\* A deployment whose inquiry channel is configured, up and running.
Init ==
  /\ Boot /\ configFile = Some(OldChannel) /\ proc = Listening
  /\ call = Null /\ ret = Null

\* saveOrders up to its await: the cache and its timestamp are assigned and the
\* text to write is produced, then fs.writeFile starts.
SaveOrders(h, r, orders, uuid) ==
  /\ ordersCache' = Some(orders)
  /\ lastOrdersLoad' = now
  /\ hs' = [ hs EXCEPT ![h] = [ r EXCEPT !.pc = "writing", !.uuid = uuid,
                                         !.content = Stringify(orders) ] ]
  /\ out' = NoOut

\* What a handler does with the array loadOrders returned, up to its next
\* await.  loaded is the value lastOrdersLoad has when loadOrders returns.
Proceed(h, r, orders, loaded) ==
  LET keep(r2, o) == /\ ordersCache' = Some(orders)
                     /\ lastOrdersLoad' = loaded
                     /\ hs' = [ hs EXCEPT ![h] = r2 ]
                     /\ out' = o
  IN
  CASE r.op = "inquiry" ->
         SaveOrders(h, r, Push(orders, NewOrder(r.uuid, r.who, r.id, r.id)),
                    r.uuid)
    [] r.op \in {"paid", "unpaid"} ->
         LET idx == FindIndex(orders, r.arg) IN
         IF idx = 0 THEN keep(Idle, Reply(r, "notfound"))
         ELSE SaveOrders(h, r, SetPayment(orders, idx, r.op, r.id, r.id),
                         orders[idx].uuid)
    [] r.op = "setstatus" ->
         LET idx == FindIndex(orders, r.arg) IN
         IF idx = 0 THEN keep(Idle, Reply(r, "notfound"))
         ELSE SaveOrders(h, r, SetStatus(orders, idx, r.val, r.id),
                         orders[idx].uuid)
    [] r.op = "note" ->
         LET idx == FindIndex(orders, r.arg) IN
         IF idx = 0 THEN keep(Idle, Reply(r, "notfound"))
         ELSE SaveOrders(h, r, SetNote(orders, idx, r.val, r.id),
                         orders[idx].uuid)
    [] r.op = "orders" -> keep(Idle, Reply(r, "list"))
    [] r.op = "order" ->
         keep(Idle, Reply(r, IF Find(orders, r.arg) = Null THEN "notfound"
                                                           ELSE "order"))
    [] r.op \in Buttons ->
         LET idx == FindLatestPending(orders, r.who) IN
         IF idx = 0 THEN keep([ r EXCEPT !.pc = "update" ], NoOut)
         ELSE SaveOrders(h, r, Decide(orders, idx, r.op, r.id),
                         orders[idx].uuid)

\* Mutant of CacheHit: an empty collection does not count as a populated cache.
CacheHitNonEmpty ==
  ordersCache # Null /\ ordersCache[1] # <<>>
  /\ now - lastOrdersLoad < CACHE_TTL

\* loadOrders up to its await: answer from the cache when it is populated and
\* younger than the TTL, else start fs.readFile.
CacheHit == ordersCache # Null /\ now - lastOrdersLoad < CACHE_TTL

LoadOrders(h, r) ==
  IF CacheHit
  THEN Proceed(h, r, ordersCache[1], lastOrdersLoad)
  ELSE /\ hs' = [ hs EXCEPT ![h] = [ r EXCEPT !.pc = "reading", !.t0 = now ] ]
       /\ out' = NoOut
       /\ UNCHANGED <<ordersCache, lastOrdersLoad>>

----------------------------------------------------------------------------
(* Actions: one per run-to-completion segment *)

Busy == { g \in Handlers : hs[g].pc # "idle" }

\* No handler is in flight.
Quiet == Busy = {}

\* Request number h arrives at a process that is up.  (The other guards bound
\* the model: MaxOps requests, and a request overlaps with one other at most.)
Begin(h) ==
  /\ proc.phase = "listening"
  /\ h = nOps + 1
  /\ nOps < MaxOps
  /\ \A f, g \in Busy : f = g
  /\ nOps' = nOps + 1

\* POST /inquiry, lines 1075-1091: validation, then getChannel() is awaited.
\* valid: every required field is present and the id is a snowflake.
StartInquiry(h) ==
  \E who \in Submitters, valid \in BOOLEAN :
    LET r == [ Idle EXCEPT !.op = "inquiry", !.id = h, !.who = who ] IN
    /\ Begin(h)
    /\ Cardinality(usedUuids)
         + Cardinality({ g \in Handlers : hs[g].pc = "getChannel" })
         < Cardinality(UuidPool)
    /\ IF valid
       THEN /\ hs' = [ hs EXCEPT ![h] = [ r EXCEPT !.pc = "getChannel" ] ]
            /\ out' = NoOut
       ELSE /\ hs' = [ hs EXCEPT ![h] = Idle ]
            /\ out' = Reply(r, "400")
    /\ UNCHANGED <<file, fileExists, ordersCache, lastOrdersLoad,
                   usedUuids, written, aux>>

\* Mutant of ChannelOk: the channel is the one configured when the process
\* started, not the one the configuration holds now.
ChannelOkCached(h) ==
  /\ hs[h].pc = "getChannel"
  /\ hs[h].op = "inquiry"
  /\ configFile # Null
  /\ \E u \in UuidPool \ usedUuids :
       /\ usedUuids' = usedUuids \cup {u}
       /\ LoadOrders(h, [ hs[h] EXCEPT !.uuid = u, !.val = OldChannel ])
  /\ UNCHANGED <<file, fileExists, nOps, written, aux>>

\* getChannel() of POST /inquiry returned the configured channel: lines
\* 1093-1116 up to the first await.  (The two awaits of getChannel, the read
\* of config.json and the fetch of the channel, are one step: nothing the
\* orders depend on changes between them.)
ChannelOk(h) ==
  /\ hs[h].pc = "getChannel"
  /\ hs[h].op = "inquiry"
  /\ configFile # Null
  /\ \E u \in UuidPool \ usedUuids :
       /\ usedUuids' = usedUuids \cup {u}
       /\ LoadOrders(h, [ hs[h] EXCEPT !.uuid = u, !.val = configFile[1] ])
  /\ UNCHANGED <<file, fileExists, nOps, written, aux>>

\* The fetch of the configured channel failed and getChannel() threw: the
\* catch of lines 1176-1182 (1224-1230) answers 500; the words of the body
\* depend on the message of the library's error.
ChannelFail(h) ==
  /\ hs[h].pc = "getChannel"
  /\ configFile # Null
  /\ hs' = [ hs EXCEPT ![h] = Idle ]
  /\ out' = Threw(hs[h], "getChannel", "500")
  /\ UNCHANGED <<file, fileExists, ordersCache, lastOrdersLoad,
                 usedUuids, nOps, written, aux>>

\* The message of the Error getChannel throws on line 703, word by word.
NotConfiguredMessage ==
  << "Inquiry", "channel", "not", "configured", ".", "Run", "!setchannel",
     "in", "your", "Discord", "server", "first", "." >>

\* The body the handlers answer with when the error's message is not shown.
GenericMessage == << "Something", "went", "wrong" >>

\* message.includes(word), for a word of the message
Includes(message, word) == \E i \in 1..Len(message) : message[i] = word

\* Mutant of CatchBody: the caller is never shown the error's message.
CatchBodyGeneric(message) == GenericMessage

\* The body of the 500 answer, lines 1178-1180 and 1226-1228.
CatchBody(message) ==
  IF Includes(message, "configured") \/ Includes(message, "channel")
  THEN message ELSE GenericMessage

\* getChannel() found no channel id in the configuration and threw (line
\* 703): the catch answers 500 with the message of the error.
NotConfigured(h) ==
  /\ hs[h].pc = "getChannel"
  /\ configFile = Null
  /\ hs' = [ hs EXCEPT ![h] = Idle ]
  /\ out' = [ Threw(hs[h], "getChannel", "500") EXCEPT
                !.text = CatchBody(NotConfiguredMessage) ]
  /\ UNCHANGED <<file, fileExists, ordersCache, lastOrdersLoad,
                 usedUuids, nOps, written, aux>>

\* POST /contact, lines 1186-1197: validation, then getChannel() is awaited.
StartContact(h) ==
  \E who \in Submitters, valid \in BOOLEAN :
    LET r == [ Idle EXCEPT !.op = "contact", !.id = h, !.who = who ] IN
    /\ Begin(h)
    /\ IF valid
       THEN /\ hs' = [ hs EXCEPT ![h] = [ r EXCEPT !.pc = "getChannel" ] ]
            /\ out' = NoOut
       ELSE /\ hs' = [ hs EXCEPT ![h] = Idle ]
            /\ out' = Reply(r, "400")
    /\ UNCHANGED <<file, fileExists, ordersCache, lastOrdersLoad,
                   usedUuids, written, aux>>

\* Mutant of ContactChannelOk: the message is stored as an order before it is
\* sent.
ContactChannelOkStores(h) ==
  /\ hs[h].pc = "getChannel"
  /\ hs[h].op = "contact"
  /\ configFile # Null
  /\ ordersCache' = Some(Push(IF ordersCache = Null THEN <<>>
                                                    ELSE ordersCache[1],
                              NewOrder(<<3, 3>>, hs[h].who, hs[h].id,
                                       hs[h].id)))
  /\ hs' = [ hs EXCEPT ![h].pc = "send", ![h].val = configFile[1] ]
  /\ out' = NoOut
  /\ UNCHANGED <<file, fileExists, lastOrdersLoad,
                 usedUuids, nOps, written, aux>>

\* getChannel() of POST /contact returned the configured channel: the embed
\* is built and channel.send starts (lines 1199-1213).
ContactChannelOk(h) ==
  /\ hs[h].pc = "getChannel"
  /\ hs[h].op = "contact"
  /\ configFile # Null
  /\ hs' = [ hs EXCEPT ![h].pc = "send", ![h].val = configFile[1] ]
  /\ out' = NoOut
  /\ UNCHANGED <<file, fileExists, ordersCache, lastOrdersLoad,
                 usedUuids, nOps, written, aux>>

\* messageCreate for !paid, !unpaid, !setstatus, !note, !orders (lines
\* 769-848) from the owner.  arg = Null: no id is given; text = FALSE: no
\* words follow the id (the status of !setstatus, the text of !note).
StartCommand(h) ==
  \E cmd \in Commands, arg \in Prefixes \cup {Null}, text \in BOOLEAN :
    LET r == [ Idle EXCEPT !.op = cmd, !.id = h,
                 !.arg = IF cmd = "orders" THEN Null ELSE arg,
                 !.val = CASE cmd = "setstatus" -> CHOOSE t \in StatusTexts : TRUE
                           [] cmd = "note"      -> CHOOSE t \in NoteTexts : TRUE
                           [] OTHER             -> "" ] IN
    /\ Begin(h)
    /\ cmd = "orders" => arg = Null
    /\ cmd \notin {"setstatus", "note"} => text
    /\ IF cmd # "orders" /\ (arg = Null \/ ~text)
       THEN /\ hs' = [ hs EXCEPT ![h] = Idle ]
            /\ out' = Reply(r, "usage")
            /\ UNCHANGED <<ordersCache, lastOrdersLoad>>
       ELSE LoadOrders(h, r)
    /\ UNCHANGED <<file, fileExists, usedUuids, written, aux>>

\* messageCreate for !order (lines 789-793) from the owner.
StartLookup(h) ==
  \E arg \in Prefixes \cup {Null} :
    LET r == [ Idle EXCEPT !.op = "order", !.id = h, !.arg = arg ] IN
    /\ Begin(h)
    /\ IF arg = Null
       THEN /\ hs' = [ hs EXCEPT ![h] = Idle ]
            /\ out' = Reply(r, "usage")
            /\ UNCHANGED <<ordersCache, lastOrdersLoad>>
       ELSE LoadOrders(h, r)
    /\ UNCHANGED <<file, fileExists, usedUuids, written, aux>>

\* interactionCreate for an accept / decline button pressed by the owner
\* (lines 940-962); the custom id carries the submitter's id.
StartButton(h) ==
  \E action \in Buttons, who \in Submitters :
    LET r == [ Idle EXCEPT !.op = action, !.id = h, !.who = who ] IN
    /\ Begin(h)
    /\ LoadOrders(h, r)
    /\ UNCHANGED <<file, fileExists, usedUuids, written, aux>>

\* The same handler, with the message the button is on: the notification of
\* the order FileOrders[i], which POST /inquiry sent with the custom ids
\* accept:<clientDiscordId> and decline:<clientDiscordId> (lines 1143-1144).
\* arg holds the uuid of that order (interaction.message; the handler never
\* reads it).  The notifications pressed are those of the orders that are
\* Pending in orders.json: where every await resolves each of them was sent.
StartPress(h) ==
  \E action \in Buttons, i \in 1..Len(IF fileExists THEN file ELSE <<>>) :
    LET x == Parse(file)[i]
        r == [ Idle EXCEPT !.op = action, !.id = h,
                 !.who = x.clientDiscordId, !.arg = Some(x.uuid) ]
    IN  /\ x.status = "Pending"
        /\ Begin(h)
        /\ LoadOrders(h, r)
        /\ UNCHANGED <<file, fileExists, usedUuids, written, aux>>

\* fs.readFile and JSON.parse succeeded: lines 623-628, then the handler.
ReadOk(h) ==
  /\ hs[h].pc = "reading"
  /\ fileExists
  /\ Proceed(h, hs[h], Cap(Parse(file)), hs[h].t0)
  /\ UNCHANGED <<file, fileExists, usedUuids, nOps, written, aux>>

\* orders.json does not exist: the catch of lines 629-633, then the handler.
ReadMissing(h) ==
  /\ hs[h].pc = "reading"
  /\ ~fileExists
  /\ Proceed(h, hs[h], <<>>, hs[h].t0)
  /\ UNCHANGED <<file, fileExists, usedUuids, nOps, written, aux>>

\* fs.readFile or JSON.parse threw although the file exists (an I/O error, or a
\* text cut short by a write in progress): the same catch.
ReadFail(h) ==
  /\ hs[h].pc = "reading"
  /\ fileExists
  /\ Proceed(h, hs[h], <<>>, hs[h].t0)
  /\ UNCHANGED <<file, fileExists, usedUuids, nOps, written, aux>>

\* fs.writeFile resolved: saveOrders returns and the handler goes on to its
\* acknowledgement (a chat reply, line 821/834/847) or to its next await.
WriteOk(h) ==
  LET r == hs[h] IN
  /\ r.pc = "writing"
  /\ file' = r.content
  /\ fileExists' = TRUE
  /\ hs' = [ hs EXCEPT ![h] =
       CASE r.op = "inquiry" -> [ r EXCEPT !.pc = "send", !.content = <<>> ]
         [] r.op \in Buttons -> [ r EXCEPT !.pc = "update", !.content = <<>> ]
         [] OTHER            -> Idle ]
  /\ out' = IF r.op \in ChatOps THEN Reply(r, "ok") ELSE NoOut
  /\ written' = Append(written, Wrote(r.uuid, r.id, r.op))
  /\ UNCHANGED <<ordersCache, lastOrdersLoad, usedUuids, nOps, aux>>

\* fs.writeFile rejected: saveOrders throws.  POST /inquiry and the button
\* handler catch it (lines 1176-1182, 989-994); messageCreate has no catch, so
\* the rejection is unhandled and no reply is sent.
WriteFail(h) ==
  LET r == hs[h] IN
  /\ r.pc = "writing"
  /\ hs' = [ hs EXCEPT ![h] = Idle ]
  /\ out' = CASE r.op = "inquiry" -> Threw(r, "writeFile", "500")
              [] r.op \in Buttons -> Threw(r, "writeFile", "error")
              [] OTHER            -> Threw(r, "writeFile", "none")
  /\ UNCHANGED <<file, fileExists, ordersCache, lastOrdersLoad,
                 usedUuids, nOps, written, aux>>

\* channel.send resolved (lines 1149-1153); the direct message is next.
SendOk(h) ==
  /\ hs[h].pc = "send"
  /\ hs' = [ hs EXCEPT ![h].pc = "dm" ]
  /\ out' = NoOut
  /\ UNCHANGED <<file, fileExists, ordersCache, lastOrdersLoad,
                 usedUuids, nOps, written, aux>>

\* channel.send rejected: it is inside the outer try only, so the catch of
\* lines 1176-1182 answers 500.
SendFail(h) ==
  /\ hs[h].pc = "send"
  /\ hs' = [ hs EXCEPT ![h] = Idle ]
  /\ out' = Threw(hs[h], "send", "500")
  /\ UNCHANGED <<file, fileExists, ordersCache, lastOrdersLoad,
                 usedUuids, nOps, written, aux>>

\* The direct message was sent (lines 1157-1162);
\* res.json({success: true, orderId}) follows.
DmOk(h) ==
  /\ hs[h].pc = "dm"
  /\ hs' = [ hs EXCEPT ![h] = Idle ]
  /\ out' = Reply(hs[h], "200")
  /\ UNCHANGED <<file, fileExists, ordersCache, lastOrdersLoad,
                 usedUuids, nOps, written, aux>>

\* The direct message was refused: the inner catch of lines 1163-1165 only
\* logs, and res.json({success: true, orderId}) follows.
DmFail(h) ==
  /\ hs[h].pc = "dm"
  /\ hs' = [ hs EXCEPT ![h] = Idle ]
  /\ out' = [ Reply(hs[h], "200") EXCEPT !.thrown = "dm" ]
  /\ UNCHANGED <<file, fileExists, ordersCache, lastOrdersLoad,
                 usedUuids, nOps, written, aux>>

\* interaction.update resolved (lines 965-973): the button message now shows
\* the decision; the follow-up is next.
UpdateOk(h) ==
  /\ hs[h].pc = "update"
  /\ hs' = [ hs EXCEPT ![h].pc = "followUp" ]
  /\ out' = Reply(hs[h], "ok")
  /\ UNCHANGED <<file, fileExists, ordersCache, lastOrdersLoad,
                 usedUuids, nOps, written, aux>>

\* interaction.update rejected: the catch of lines 989-994 replies "Error.".
UpdateFail(h) ==
  /\ hs[h].pc = "update"
  /\ hs' = [ hs EXCEPT ![h] = Idle ]
  /\ out' = Threw(hs[h], "update", "error")
  /\ UNCHANGED <<file, fileExists, ordersCache, lastOrdersLoad,
                 usedUuids, nOps, written, aux>>

\* interaction.followUp settled (lines 975-980); when it rejects, the catch
\* finds interaction.replied set and sends nothing more.
FollowUpDone(h) ==
  /\ hs[h].pc = "followUp"
  /\ hs' = [ hs EXCEPT ![h] = Idle ]
  /\ out' = NoOut
  /\ UNCHANGED <<file, fileExists, ordersCache, lastOrdersLoad,
                 usedUuids, nOps, written, aux>>

\* Time passes: what was remembered is one unit older.
Older(t) == IF t > 0 THEN t - 1 ELSE 0

Elapse ==
  /\ lastOrdersLoad' = Older(lastOrdersLoad)
  /\ hs' = [ h \in Handlers |->
              IF hs[h].pc = "reading" THEN [ hs[h] EXCEPT !.t0 = Older(@) ]
                                      ELSE hs[h] ]
  /\ out' = NoOut
  /\ UNCHANGED <<file, fileExists, ordersCache, usedUuids, nOps, written>>

Tick == Elapse /\ UNCHANGED aux

\* The process stops (a crash, SIGINT/SIGTERM of lines 1234-1235) and is
\* started again: the module-level state of lines 615-616 and 671 is
\* initialised anew, the handlers in flight are gone, the files stay.
Restart ==
  /\ ordersCache' = Null
  /\ lastOrdersLoad' = 0
  /\ hs' = [ h \in Handlers |-> Idle ]
  /\ out' = NoOut
  /\ currentStatus' = "open"
  /\ visits' = [ visits EXCEPT !.limited = {} ]
  /\ UNCHANGED <<file, fileExists, usedUuids, nOps, written,
                 configFile, workFile, event, foreign, proc, call, ret>>

\* A request arrives and its handler runs up to its first await.
Start(h) == StartInquiry(h) \/ StartCommand(h) \/ StartButton(h)

\* An I/O operation of a handler succeeds and the handler runs on.
Continue(h) ==
  \/ ChannelOk(h) \/ ReadOk(h) \/ ReadMissing(h) \/ WriteOk(h)
  \/ SendOk(h) \/ DmOk(h) \/ UpdateOk(h) \/ FollowUpDone(h)

\* The steps in which an I/O operation of a handler fails.
Fault(h) ==
  \/ ChannelFail(h) \/ ReadFail(h) \/ WriteFail(h) \/ SendFail(h)
  \/ DmFail(h) \/ UpdateFail(h)

\* Handlers interleave at their awaits; I/O can fail; the process can restart.
Next ==
  \/ \E h \in Handlers : Start(h) \/ Continue(h) \/ Fault(h)
  \/ Tick
  \/ Restart

Spec == Init /\ [][Next]_vars

\* The same without I/O failures and restarts.
NextNoFault ==
  \/ \E h \in Handlers : Start(h) \/ Continue(h)
  \/ Tick

SpecNoFault == Init /\ [][NextNoFault]_vars

\* One handler at a time, without I/O failures and restarts.
NextSeq ==
  \/ \E h \in Handlers : (Quiet /\ Start(h)) \/ Continue(h)
  \/ Tick

SpecSeq == Init /\ [][NextSeq]_vars

\* Another writer of orders.json (a second instance of the program, or the
\* owner editing the file) appends an order of its own.  at is the number of
\* requests this process had started, age the time since the change.
ForeignOrder == NewOrder(<<3, 3>>, "s1", 0, 0)

ExternalWrite ==
  /\ foreign = Null
  /\ file' = Stringify(Append(IF fileExists THEN Parse(file) ELSE <<>>,
                              ForeignOrder))
  /\ fileExists' = TRUE
  /\ foreign' = Some([ uuid |-> ForeignOrder.uuid, age |-> 0, at |-> nOps ])
  /\ out' = NoOut
  /\ UNCHANGED <<ordersCache, lastOrdersLoad, hs, usedUuids, nOps, written,
                 currentStatus, configFile, workFile, event,
                 visits, proc, call, ret>>

\* Time passes, also for the foreign change.
TickForeign ==
  /\ Elapse
  /\ foreign' = IF foreign = Null THEN Null
                ELSE Some([ foreign[1] EXCEPT
                              !.age = IF @ < CACHE_TTL THEN @ + 1 ELSE @ ])
  /\ UNCHANGED <<currentStatus, configFile, workFile, event,
                 visits, proc, call, ret>>

\* One handler at a time, without I/O failures and restarts, beside another
\* writer of orders.json.
NextForeign ==
  \/ \E h \in Handlers : (Quiet /\ Start(h)) \/ Continue(h)
  \/ TickForeign
  \/ ExternalWrite

SpecForeign == Init /\ [][NextForeign]_vars

\* The owner manages the orders (lookups, updates, button presses) between
\* submissions: one request at a time, without I/O failures and restarts.
NextManage ==
  \/ \E h \in Handlers :
       \/ Quiet /\ (StartInquiry(h) \/ StartCommand(h) \/ StartLookup(h)
                    \/ StartPress(h))
       \/ Continue(h)
  \/ Tick

SpecManage == Init /\ [][NextManage]_vars

----------------------------------------------------------------------------
(* Functions applied on their own: call holds the name of a function of the  *)
(* program and its arguments, ret what it returned.                          *)

\* JavaScript values, as JSON.parse or express.json() produce them.
Undefined == [ t |-> "undefined" ]
JsNull    == [ t |-> "null" ]
Object    == [ t |-> "object" ]                 \* {}
Bool(b)   == [ t |-> "boolean", v |-> b ]
Str(s)    == [ t |-> "string", v |-> s ]        \* s: the characters
Num(d)    == [ t |-> "number", v |-> d ]        \* d: the decimal digits
Arr(a)    == [ t |-> "array", v |-> a ]         \* a: the elements

Digit == {"0", "1", "2", "3", "4", "5", "6", "7", "8", "9"}

\* n times the character c
Repeat(c, n) == [ i \in 1..n |-> c ]

\* !v
Falsy(v) ==
  \/ v.t \in {"undefined", "null"}
  \/ v = Bool(FALSE)
  \/ v = Str(<<>>)
  \/ v = Num(<<"0">>)

\* a.join(","), over the strings of the elements
RECURSIVE Join(_)
Join(a) ==
  IF Len(a) = 0 THEN <<>>
  ELSE IF Len(a) = 1 THEN a[1]
  ELSE a[1] \o <<",">> \o Join(Tail(a))

\* String(v)
RECURSIVE String(_)
String(v) ==
  CASE v.t = "string"    -> v.v
    [] v.t = "number"    -> v.v
    [] v.t = "boolean"   -> IF v.v THEN <<"t", "r", "u", "e">>
                                   ELSE <<"f", "a", "l", "s", "e">>
    [] v.t = "null"      -> <<"n", "u", "l", "l">>
    [] v.t = "undefined" -> <<"u", "n", "d", "e", "f", "i", "n", "e", "d">>
    [] v.t = "object"    -> <<"[", "o", "b", "j", "e", "c", "t", " ",
                              "O", "b", "j", "e", "c", "t", "]">>
    [] v.t = "array"     ->
         Join([ i \in 1..Len(v.v) |->
                  IF v.v[i].t \in {"null", "undefined"} THEN <<>>
                  ELSE String(v.v[i]) ])

\* /^\d{17,20}$/.test(s)
SnowflakePattern(s) ==
  /\ Len(s) \in 17..20
  /\ \A i \in 1..Len(s) : s[i] \in Digit

\* isValidSnowflake(id)
isValidSnowflake(id) == ~Falsy(id) /\ SnowflakePattern(String(id))

\* The members of req.body that POST /inquiry requires.
Required == {"discordUsername", "clientDiscordId", "serverName", "serverType",
             "budget", "paymentMethod", "projectDetails"}

\* POST /inquiry, lines 1083-1088: the status of the early return, or "pass"
\* when the handler goes on to getChannel().
ValidateInquiry(body) ==
  IF \E f \in Required : Falsy(body[f]) THEN "400 missing"
  ELSE IF ~isValidSnowflake(body.clientDiscordId) THEN "400 invalid id"
  ELSE "pass"

\* Values of a text member of the body, and of clientDiscordId.
TextValues == {Undefined, Str(<<>>), Str(<<"x">>)}
IdValues ==
  { Undefined, Str(<<>>),
    Str(Repeat("1", 16)), Str(Repeat("1", 17)), Str(Repeat("1", 20)),
    Str(Repeat("1", 21)), Str(Repeat("1", 16) \o <<"x">>),
    Num(Repeat("1", 17)), Arr(<<Str(Repeat("1", 17))>>) }

Bodies ==
  { [ f \in Required |-> IF f = "clientDiscordId" THEN id ELSE t[f] ] :
      id \in IdValues, t \in [ Required \ {"clientDiscordId"} -> TextValues ] }

ValidateCalls == { [ fn |-> "validate", body |-> b ] : b \in Bodies }

\* The validation of POST /inquiry is applied to call.body.
ApplyValidate ==
  /\ call # Null /\ call[1].fn = "validate" /\ ret = Null
  /\ ret' = Some(ValidateInquiry(call[1].body))
  /\ UNCHANGED <<file, fileExists, ordersCache, lastOrdersLoad, hs, out,
                 usedUuids, nOps, written, currentStatus, configFile,
                 workFile, event, foreign, visits, proc, call>>

\* States of orders.json: no such file, a file that cannot be read, a text
\* that is not JSON, or the text of a JSON value.
OrdersFiles ==
  { [ t |-> "missing" ], [ t |-> "unreadable" ], [ t |-> "not json" ] }
  \cup { [ t |-> "json", v |-> v ] :
           v \in { JsNull, Object, Bool(TRUE), Num(<<"5">>), Str(<<>>),
                   Str(<<"a", "b", "c">>), Arr(<<>>), Arr(<<Old1>>),
                   Arr(<<Old1, Old2>>),
                   Arr(<<Old1, Old2, NewOrder(<<1, 3>>, "s1", 0, 0)>>) } }

\* loadOrders on a cache miss, lines 622-633: the value it returns.  readFile
\* or JSON.parse throws into the catch; so does null.length; any other value
\* has a length (undefined for an object, a number, a boolean) and is
\* returned, sliced when it is longer than the cap.
LoadFrom(f) ==
  CASE f.t \in {"missing", "unreadable", "not json"} -> Arr(<<>>)
    [] f.v.t = "null"                     -> Arr(<<>>)
    [] f.v.t \in {"array", "string"}      -> [ f.v EXCEPT !.v = Cap(@) ]
    [] OTHER                              -> f.v

\* The operations that follow loadOrders: "create" (orders.push, line 1100),
\* "find" (orders.find / findIndex, lines 792, 816, 830, 843), "filter"
\* (orders.filter of !orders <status>, line 774) and "list" (!orders, lines
\* 775-777: orders.length, then orders.slice(-10).map).  TRUE: a TypeError is
\* thrown.
Throws(op, orders) ==
  CASE op \in {"create", "find", "filter"} -> orders.t # "array"
    [] op = "list" -> orders.t = "string" /\ Len(orders.v) > 0

LoadCalls ==
  { [ fn |-> "load", f |-> f, op |-> op ] :
      f \in OrdersFiles, op \in {"create", "find", "filter", "list"} }

\* loadOrders reads call.f, and the operation call.op follows.
ApplyLoad ==
  /\ call # Null /\ call[1].fn = "load" /\ ret = Null
  /\ ret' = Some([ orders |-> LoadFrom(call[1].f),
                   thrown |-> Throws(call[1].op, LoadFrom(call[1].f)) ])
  /\ UNCHANGED <<file, fileExists, ordersCache, lastOrdersLoad, hs, out,
                 usedUuids, nOps, written, currentStatus, configFile,
                 workFile, event, foreign, visits, proc, call>>

\* The sequences over S of length n at most.
SeqsUpTo(S, n) == UNION { [ 1..k -> S ] : k \in 0..n }

\* What an update command does to orders[idx] (lines 818-819, 832, 845).
Update(cmd, orders, idx, val, t, op) ==
  CASE cmd \in {"paid", "unpaid"} -> SetPayment(orders, idx, cmd, t, op)
    [] cmd = "setstatus"          -> SetStatus(orders, idx, val, op)
    [] cmd = "note"               -> SetNote(orders, idx, val, op)

\* Collections and arguments for the lookup by uuid prefix.
LookupUuids    == {<<"a", "b">>, <<"a", "c">>, <<"b", "a">>}
LookupPrefixes == {<<"a">>, <<"A">>, <<"a", "b">>, <<"a", "B">>, <<"b">>,
                   <<"c">>, <<"a", "b", "c">>}
LookupOrders   == { NewOrder(u, "s1", 0, 0) : u \in LookupUuids }

FindCalls ==
  { [ fn |-> "find", orders |-> o, arg |-> a, cmd |-> c ] :
      o \in SeqsUpTo(LookupOrders, MaxLen), a \in LookupPrefixes,
      c \in {"order"} \cup ChatOps }

\* !order, !paid, !unpaid, !setstatus, !note on call.orders with args[1] =
\* call.arg: what is looked up, replied and handed to saveOrders.
ApplyFind ==
  /\ call # Null /\ call[1].fn = "find" /\ ret = Null
  /\ LET c   == call[1]
         idx == FindIndex(c.orders, c.arg)
         val == IF c.cmd = "setstatus" THEN "Done" ELSE "x"
     IN  ret' = Some(
           [ order |-> IF c.cmd = "order" THEN Find(c.orders, c.arg)
                       ELSE IF idx = 0 THEN Null ELSE Some(c.orders[idx]),
             reply |-> IF c.cmd = "order"
                       THEN IF Find(c.orders, c.arg) = Null THEN "notfound"
                                                            ELSE "order"
                       ELSE IF idx = 0 THEN "notfound" ELSE "ok",
             saved |-> IF c.cmd = "order" \/ idx = 0 THEN Null
                       ELSE Some(Update(c.cmd, c.orders, idx, val, 1, 1)) ])
  /\ UNCHANGED <<file, fileExists, ordersCache, lastOrdersLoad, hs, out,
                 usedUuids, nOps, written, currentStatus, configFile,
                 workFile, event, foreign, visits, proc, call>>

\* Collections for the scan of the accept / decline handler.
ScanSubmitters == {"s1", "s2"}
ScanOrders ==
  { [ NewOrder(<<"a", "b">>, w, 0, 0) EXCEPT !.status = st ] :
      w \in ScanSubmitters, st \in {"Pending", "Accepted", "pending"} }

ScanCalls ==
  { [ fn |-> "scan", orders |-> o, discordId |-> w ] :
      o \in SeqsUpTo(ScanOrders, MaxLen), w \in ScanSubmitters }

\* The scan of lines 952-958 on call.orders for call.discordId.
ApplyScan ==
  /\ call # Null /\ call[1].fn = "scan" /\ ret = Null
  /\ ret' = Some(FindLatestPending(call[1].orders, call[1].discordId))
  /\ UNCHANGED <<file, fileExists, ordersCache, lastOrdersLoad, hs, out,
                 usedUuids, nOps, written, currentStatus, configFile,
                 workFile, event, foreign, visits, proc, call>>

\* The listing of !orders shows the last 10 matching orders; the model
\* scales 10 to 2.
LIST_SHOWN == 2

\* s.toLowerCase()
ToLowerCase(s) == [ i \in 1..Len(s) |-> Lower(s[i]) ]

\* Mutant of Filtered: the statuses are compared as they are written.
FilteredExact(orders, filter) ==
  IF filter = Null THEN orders
  ELSE SelectSeq(orders, LAMBDA o : o.status = filter[1])

\* filter ? orders.filter(o => o.status?.toLowerCase() ===
\* filter.toLowerCase()) : orders, lines 773-775 (filter = Null: no args[1])
Filtered(orders, filter) ==
  IF filter = Null THEN orders
  ELSE SelectSeq(orders,
                 LAMBDA o : ToLowerCase(o.status) = ToLowerCase(filter[1]))

\* filtered.slice(-10)
LastShown(filtered) ==
  IF Len(filtered) > LIST_SHOWN
  THEN SubSeq(filtered, Len(filtered) - LIST_SHOWN + 1, Len(filtered))
  ELSE filtered

\* The reply of !orders, lines 776-785: "No orders", or one line for each of
\* the last orders of the filtered list, and the footer "Total: n".
ListOrders(orders, filter) ==
  LET filtered == Filtered(orders, filter) IN
  IF Len(filtered) = 0
  THEN [ reply |-> "none", lines |-> <<>>, total |-> 0 ]
  ELSE [ reply |-> "list", lines |-> LastShown(filtered),
         total |-> Len(filtered) ]

ListStatuses == { <<"A">>, <<"a">>, <<"B">> }
ListOrdersPool ==
  { [ NewOrder(u, "s1", 0, 0) EXCEPT !.status = st ] :
      u \in { <<1>>, <<2>> }, st \in ListStatuses }

ListCalls ==
  { [ fn |-> "list", orders |-> o, filter |-> f ] :
      o \in SeqsUpTo(ListOrdersPool, MaxLen),
      f \in { Some(st) : st \in { <<"a">>, <<"A">>, <<"b">> } } \cup {Null} }

\* !orders on call.orders with call.filter.
ApplyList ==
  /\ call # Null /\ call[1].fn = "list" /\ ret = Null
  /\ ret' = Some(ListOrders(call[1].orders, call[1].filter))
  /\ UNCHANGED <<file, fileExists, ordersCache, lastOrdersLoad, hs, out,
                 usedUuids, nOps, written, currentStatus, configFile,
                 workFile, event, foreign, visits, proc, call>>

\* The keys of CATEGORY_META and their display metadata, lines 680-687.
Categories ==
  { "ERLC / Roblox RP", "Gaming Community", "Study / Education",
    "Business / Brand", "General Community", "Other" }

OwnMeta(key) ==
  CASE key = "ERLC / Roblox RP"  -> [ color |-> "ff7b3a", emoji |-> "car" ]
    [] key = "Gaming Community"  -> [ color |-> "5865f2", emoji |-> "pad" ]
    [] key = "Study / Education" -> [ color |-> "3dffa0", emoji |-> "books" ]
    [] key = "Business / Brand"  -> [ color |-> "1a6fff", emoji |-> "case" ]
    [] key = "General Community" -> [ color |-> "00c8e0", emoji |-> "globe" ]
    [] key = "Other"             -> [ color |-> "888888", emoji |-> "mark" ]

\* { color: 0x6ee7f7, emoji: inbox } of line 1096
DefaultMeta == [ color |-> "6ee7f7", emoji |-> "inbox" ]

\* CATEGORY_META is an object literal: besides its own keys it answers to the
\* names it inherits from Object.prototype, with a function or an object
\* that has neither a color nor an emoji.
InheritedKeys == { "constructor", "toString", "valueOf", "hasOwnProperty",
                   "__proto__" }
Inherited == [ color |-> "undefined", emoji |-> "undefined" ]

\* CATEGORY_META[serverType] (Null: undefined)
Lookup(serverType) ==
  IF serverType \in Categories THEN Some(OwnMeta(serverType))
  ELSE IF serverType \in InheritedKeys THEN Some(Inherited)
  ELSE Null

\* meta of line 1096: CATEGORY_META[serverType] || { default }
MetaFor(serverType) ==
  IF Lookup(serverType) = Null THEN DefaultMeta ELSE Lookup(serverType)[1]

ServerTypes == Categories \cup { "Minecraft", "Art server" } \cup InheritedKeys

MetaCalls == { [ fn |-> "meta", serverType |-> t ] : t \in ServerTypes }

\* Lines 1096 and 1108 for call.serverType: the metadata of the notification
\* and the serviceType stored in the order.
ApplyMeta ==
  /\ call # Null /\ call[1].fn = "meta" /\ ret = Null
  /\ ret' = Some([ meta |-> MetaFor(call[1].serverType),
                   serviceType |-> call[1].serverType ])
  /\ UNCHANGED <<file, fileExists, ordersCache, lastOrdersLoad, hs, out,
                 usedUuids, nOps, written, currentStatus, configFile,
                 workFile, event, foreign, visits, proc, call>>

Calls == ValidateCalls \cup LoadCalls \cup FindCalls \cup ScanCalls
           \cup ListCalls \cup MetaCalls

InitFn ==
  /\ Boot /\ ~fileExists /\ configFile = Some(OldChannel) /\ proc = Listening
  /\ call \in { Some(c) : c \in Calls } /\ ret = Null

NextFn ==
  \/ ApplyValidate \/ ApplyLoad \/ ApplyFind \/ ApplyScan \/ ApplyList
  \/ ApplyMeta

SpecFn == InitFn /\ [][NextFn]_vars

----------------------------------------------------------------------------
(* The chat front: who may command the bot, the availability status,        *)
(* config.json and work.json.                                                *)

OWNER_ID == "owner"                           \* CONFIG.OWNER_ID

\* Who writes a message or presses a button: the owner, another user, a bot.
Authors == { [ id |-> OWNER_ID, bot |-> FALSE ],
             [ id |-> "u2",     bot |-> FALSE ],
             [ id |-> "b1",     bot |-> TRUE  ] }

StatusCommands == {"open", "slow", "close"}
ChatCommands   == Commands \cup StatusCommands \cup {"setchannel", "addwork"}
ChannelIds     == {"c1"}                      \* channels the bot can fetch

Http == <<"h", "t", "t", "p">>
\* The text after !addwork, split at "|" and trimmed.
WorkParts == { <<"b", "d", "s", Http \o <<"s">> >>,
               <<"b", "d", "s", <<"f", "t", "p">> >>,
               <<"b", "",  "s", Http \o <<"s">> >>,
               <<"b", "d">> }

\* The head of messageCreate without its third line.
GateWithoutOwnerCheck(author, prefixed) ==
  IF author.bot THEN "ignore"
  ELSE IF ~prefixed THEN "ignore"
  ELSE "run"

\* The head of messageCreate: what becomes of a message.
Gate(author, prefixed) ==
  IF author.bot THEN "ignore"
  ELSE IF ~prefixed THEN "ignore"
  ELSE IF author.id # OWNER_ID THEN "refuse"
  ELSE "run"

\* The head of interactionCreate: what becomes of an interaction.
ButtonGate(user, isButton) ==
  IF ~isButton THEN "ignore"
  ELSE IF user.id # OWNER_ID THEN "refuse"
  ELSE "run"

\* The message (msg) or interaction a handler is called with.
Message(h, author, prefixed, cmd) ==
  [ kind |-> "message", id |-> h, author |-> author.id, bot |-> author.bot,
    command |-> prefixed, cmd |-> cmd ]

Press(h, user, isButton, action) ==
  [ kind |-> "interaction", id |-> h, author |-> user.id, bot |-> user.bot,
    command |-> isButton, cmd |-> action ]

\* messageCreate returns at its head: the message is ignored, or its author
\* is told that the commands are the owner's.
MessageNotRun(h) ==
  \E author \in Authors, prefixed \in BOOLEAN, cmd \in ChatCommands :
    LET r == [ Idle EXCEPT !.op = cmd, !.id = h ] IN
    /\ Begin(h)
    /\ Gate(author, prefixed) # "run"
    /\ event' = Some(Message(h, author, prefixed, cmd))
    /\ out' = IF Gate(author, prefixed) = "refuse"
              THEN Reply(r, "owner only") ELSE NoOut
    /\ UNCHANGED <<file, fileExists, ordersCache, lastOrdersLoad, hs,
                   usedUuids, written, currentStatus, configFile, workFile,
                   foreign, visits, proc, call, ret>>

\* interactionCreate returns at its head.
PressNotRun(h) ==
  \E user \in Authors, isButton \in BOOLEAN, action \in Buttons :
    LET r == [ Idle EXCEPT !.op = action, !.id = h ] IN
    /\ Begin(h)
    /\ ButtonGate(user, isButton) # "run"
    /\ event' = Some(Press(h, user, isButton, action))
    /\ out' = IF ButtonGate(user, isButton) = "refuse"
              THEN Reply(r, "owner only") ELSE NoOut
    /\ UNCHANGED <<file, fileExists, ordersCache, lastOrdersLoad, hs,
                   usedUuids, written, currentStatus, configFile, workFile,
                   foreign, visits, proc, call, ret>>

\* cmd === "close" ? "closed" : cmd
AvailabilityAsTyped(cmd) == cmd

Availability(cmd) == IF cmd = "close" THEN "closed" ELSE cmd

\* !open, !slow, !close: the status is assigned and the reply names it.
SetAvailability(h) ==
  \E author \in Authors, cmd \in StatusCommands :
    LET r == [ Idle EXCEPT !.op = cmd, !.id = h ] IN
    /\ Begin(h)
    /\ Gate(author, TRUE) = "run"
    /\ event' = Some(Message(h, author, TRUE, cmd))
    /\ currentStatus' = Availability(cmd)
    /\ out' = Reply(r, currentStatus')
    /\ UNCHANGED <<file, fileExists, ordersCache, lastOrdersLoad, hs,
                   usedUuids, written, configFile, workFile, foreign,
                   visits, proc, call, ret>>

\* GET /status answers with the status.
GetStatus(h) ==
  LET r == [ Idle EXCEPT !.op = "GET /status", !.id = h ] IN
  /\ Begin(h)
  /\ out' = Reply(r, currentStatus)
  /\ UNCHANGED <<file, fileExists, ordersCache, lastOrdersLoad, hs,
                 usedUuids, written, currentStatus, configFile, workFile,
                 event, foreign, visits, proc, call, ret>>

\* !setchannel up to client.channels.fetch; ch = Null: no channel is named.
StartSetChannel(h) ==
  \E author \in Authors, ch \in { Some(c) : c \in ChannelIds } \cup {Null} :
    LET r == [ Idle EXCEPT !.op = "setchannel", !.id = h ] IN
    /\ Begin(h)
    /\ Gate(author, TRUE) = "run"
    /\ event' = Some(Message(h, author, TRUE, "setchannel"))
    /\ IF ch = Null
       THEN /\ hs' = hs
            /\ out' = Reply(r, "usage")
       ELSE /\ hs' = [ hs EXCEPT ![h] =
                         [ r EXCEPT !.pc = "fetchChannel", !.val = ch[1] ] ]
            /\ out' = NoOut
    /\ UNCHANGED <<file, fileExists, ordersCache, lastOrdersLoad,
                   usedUuids, written, currentStatus, configFile, workFile,
                   foreign, visits, proc, call, ret>>

\* The channel is fetched; getConfig() starts to read config.json.
ChannelFetched(h) ==
  /\ hs[h].pc = "fetchChannel"
  /\ hs' = [ hs EXCEPT ![h].pc = "readConfig" ]
  /\ out' = NoOut
  /\ UNCHANGED <<file, fileExists, ordersCache, lastOrdersLoad,
                 usedUuids, nOps, written, aux>>

\* loadConfig() answers (the file's object, or the fallback object when the
\* file is missing); its inquiryChannelId is assigned and saveConfig starts.
ConfigRead(h) ==
  /\ hs[h].pc = "readConfig"
  /\ hs' = [ hs EXCEPT ![h].pc = "writeConfig" ]
  /\ out' = NoOut
  /\ UNCHANGED <<file, fileExists, ordersCache, lastOrdersLoad,
                 usedUuids, nOps, written, aux>>

\* fs.writeFile of config.json resolved: the reply names the channel.
ConfigWritten(h) ==
  /\ hs[h].pc = "writeConfig"
  /\ configFile' = Some(hs[h].val)
  /\ hs' = [ hs EXCEPT ![h] = Idle ]
  /\ out' = Reply(hs[h], "ok")
  /\ UNCHANGED <<file, fileExists, ordersCache, lastOrdersLoad,
                 usedUuids, nOps, written, currentStatus, workFile, event,
                 foreign, visits, proc, call, ret>>

\* The fetch or the write rejected: the catch answers "Channel not found".
ConfigFault(h) ==
  /\ hs[h].pc \in {"fetchChannel", "writeConfig"}
  /\ hs' = [ hs EXCEPT ![h] = Idle ]
  /\ out' = Threw(hs[h], hs[h].pc, "not found")
  /\ UNCHANGED <<file, fileExists, ordersCache, lastOrdersLoad,
                 usedUuids, nOps, written, aux>>

\* !addwork up to loadWork(): four non-empty parts, the last one a link.
StartAddWork(h) ==
  \E author \in Authors, parts \in WorkParts :
    LET r == [ Idle EXCEPT !.op = "addwork", !.id = h ] IN
    /\ Begin(h)
    /\ Gate(author, TRUE) = "run"
    /\ event' = Some(Message(h, author, TRUE, "addwork"))
    /\ IF Len(parts) < 4 \/ \E i \in 1..Len(parts) : parts[i] = ""
       THEN /\ hs' = hs
            /\ out' = Reply(r, "usage")
       ELSE IF ~StartsWith(parts[4], Http)
       THEN /\ hs' = hs
            /\ out' = Reply(r, "invite")
       ELSE /\ hs' = [ hs EXCEPT ![h] =
                         [ r EXCEPT !.pc = "readWork", !.val = parts[1] ] ]
            /\ out' = NoOut
    /\ UNCHANGED <<file, fileExists, ordersCache, lastOrdersLoad,
                   usedUuids, written, currentStatus, configFile, workFile,
                   foreign, visits, proc, call, ret>>

\* loadWork() answers with the entries of work.json ([] when it is missing);
\* the entry is pushed and saveWork starts with the text of the new array.
WorkRead(h) ==
  /\ hs[h].pc = "readWork"
  /\ hs' = [ hs EXCEPT ![h].pc = "writeWork",
                       ![h].content =
                          Append(workFile, [ id |-> h, botName |-> hs[h].val ]) ]
  /\ out' = NoOut
  /\ UNCHANGED <<file, fileExists, ordersCache, lastOrdersLoad,
                 usedUuids, nOps, written, aux>>

\* fs.writeFile of work.json resolved.
WorkWritten(h) ==
  /\ hs[h].pc = "writeWork"
  /\ workFile' = hs[h].content
  /\ hs' = [ hs EXCEPT ![h] = Idle ]
  /\ out' = Reply(hs[h], "ok")
  /\ UNCHANGED <<file, fileExists, ordersCache, lastOrdersLoad,
                 usedUuids, nOps, written, currentStatus, configFile, event,
                 foreign, visits, proc, call, ret>>

\* A message, a button press or a GET /status arrives.
StartChat(h) ==
  \/ MessageNotRun(h) \/ PressNotRun(h) \/ SetAvailability(h) \/ GetStatus(h)
  \/ StartSetChannel(h) \/ StartAddWork(h) \/ StartCommand(h)
  \/ StartButton(h)

ContinueChat(h) ==
  \/ ChannelFetched(h) \/ ConfigRead(h) \/ ConfigWritten(h) \/ ConfigFault(h)
  \/ WorkRead(h) \/ WorkWritten(h)
  \/ ReadOk(h) \/ ReadMissing(h) \/ WriteOk(h) \/ UpdateOk(h)
  \/ FollowUpDone(h)

\* The chat front, one handler at a time; the process can restart.
NextChat ==
  \/ \E h \in Handlers : (Quiet /\ StartChat(h)) \/ ContinueChat(h)
  \/ Restart

SpecChat == Init /\ [][NextChat]_vars

----------------------------------------------------------------------------
(* Dispatch: POST /inquiry and POST /contact with the channel configured or  *)
(* not, and !setchannel.                                                     *)

\* A deployment with or without a configured channel.
InitDispatch ==
  /\ Boot
  /\ configFile \in {Null, Some(OldChannel)}
  /\ proc = Listening
  /\ call = Null /\ ret = Null

StartDispatch(h) == StartInquiry(h) \/ StartContact(h) \/ StartSetChannel(h)

ContinueDispatch(h) ==
  \/ NotConfigured(h) \/ ChannelOk(h) \/ ContactChannelOk(h)
  \/ ReadOk(h) \/ ReadMissing(h) \/ WriteOk(h) \/ SendOk(h) \/ DmOk(h)
  \/ ChannelFetched(h) \/ ConfigRead(h) \/ ConfigWritten(h)

FaultDispatch(h) ==
  \/ ChannelFail(h) \/ WriteFail(h) \/ SendFail(h) \/ DmFail(h)
  \/ ConfigFault(h)

\* One request at a time; I/O can fail.
NextDispatch ==
  \E h \in Handlers :
    (Quiet /\ StartDispatch(h)) \/ ContinueDispatch(h) \/ FaultDispatch(h)

SpecDispatch == InitDispatch /\ [][NextDispatch]_vars

----------------------------------------------------------------------------
(* The visit counter: POST /visit behind its rate limiter.                   *)
(* visits.count is data.count as loadVisits yields it (0 while visits.json   *)
(* is missing), visits.limited the keys the limiter's store holds for the    *)
(* current window, visits.answered (history) the number of POST /visit       *)
(* requests that were let through and answered with success.                 *)

Ips == {"ip1", "ip2"}                         \* req.ip, the limiter's key

\* POST /visit arrives: the limiter counts the hit of the address; the first
\* hit of a window goes on to the route (lines 1062-1064), a later one to the
\* limiter's handler (lines 1028-1031).  Both start loadVisits().
StartVisit(h) ==
  \E ip \in Ips :
    LET r == [ Idle EXCEPT !.op = IF ip \in visits.limited
                                  THEN "visit limited" ELSE "visit",
                 !.id = h, !.who = ip, !.pc = "readVisits" ] IN
    /\ Begin(h)
    /\ visits' = [ visits EXCEPT !.limited = @ \cup {ip} ]
    /\ hs' = [ hs EXCEPT ![h] = r ]
    /\ out' = NoOut
    /\ UNCHANGED <<file, fileExists, ordersCache, lastOrdersLoad,
                   usedUuids, written, currentStatus, configFile, workFile,
                   event, foreign, proc, call, ret>>

\* loadVisits() returned: the limiter's handler answers with the count (line
\* 1032); the route adds one and starts saveVisits (lines 1065-1066).  The
\* text of the answer is its count.
VisitsRead(h) ==
  /\ hs[h].pc = "readVisits"
  /\ IF hs[h].op = "visit"
     THEN /\ hs' = [ hs EXCEPT ![h].pc = "writeVisits",
                               ![h].content = << visits.count + 1 >> ]
          /\ out' = NoOut
     ELSE /\ hs' = [ hs EXCEPT ![h] = Idle ]
          /\ out' = [ Reply(hs[h], "200") EXCEPT !.text = << visits.count >> ]
  /\ UNCHANGED <<file, fileExists, ordersCache, lastOrdersLoad,
                 usedUuids, nOps, written, aux>>

\* fs.writeFile of visits.json resolved: the route answers with the count it
\* wrote (line 1067).
VisitsWritten(h) ==
  /\ hs[h].pc = "writeVisits"
  /\ visits' = [ visits EXCEPT !.count = hs[h].content[1],
                               !.answered = @ + 1 ]
  /\ hs' = [ hs EXCEPT ![h] = Idle ]
  /\ out' = [ Reply(hs[h], "200") EXCEPT !.text = hs[h].content ]
  /\ UNCHANGED <<file, fileExists, ordersCache, lastOrdersLoad,
                 usedUuids, nOps, written, currentStatus, configFile,
                 workFile, event, foreign, proc, call, ret>>

\* fs.writeFile of visits.json rejected: the catch answers 500 with count 0
\* (lines 1068-1070).
VisitsWriteFail(h) ==
  /\ hs[h].pc = "writeVisits"
  /\ hs' = [ hs EXCEPT ![h] = Idle ]
  /\ out' = [ Threw(hs[h], "writeFile", "500") EXCEPT !.text = << 0 >> ]
  /\ UNCHANGED <<file, fileExists, ordersCache, lastOrdersLoad,
                 usedUuids, nOps, written, aux>>

\* windowMs after its first hit the limiter forgets an address.
WindowEnds ==
  \E ip \in visits.limited :
    /\ visits' = [ visits EXCEPT !.limited = @ \ {ip} ]
    /\ out' = NoOut
    /\ UNCHANGED <<file, fileExists, ordersCache, lastOrdersLoad, hs,
                   usedUuids, nOps, written, currentStatus, configFile,
                   workFile, event, foreign, proc, call, ret>>

\* Visits interleave at their awaits; the write of visits.json can fail.
NextVisit ==
  \/ \E h \in Handlers :
       \/ StartVisit(h) \/ VisitsRead(h) \/ VisitsWritten(h)
       \/ VisitsWriteFail(h)
  \/ WindowEnds

SpecVisit == Init /\ [][NextVisit]_vars

----------------------------------------------------------------------------
(* The start of the process: the BOT_TOKEN guard, client.login, app.listen.  *)
(* proc.token: BOT_TOKEN is set; proc.loggedIn: client.login has resolved;   *)
(* proc.phase: "load" (the module is being evaluated), "login" (client.login *)
(* is pending), "listening" (app.listen was called) or "exited".             *)

\* A process that has just been started, with or without BOT_TOKEN.
InitBoot ==
  /\ Boot /\ configFile = Some(OldChannel)
  /\ proc \in { [ token |-> t, loggedIn |-> FALSE, phase |-> "load" ] :
                 t \in BOOLEAN }
  /\ call = Null /\ ret = Null

\* What the steps of the start leave alone.
StartKeeps ==
  /\ out' = NoOut
  /\ UNCHANGED <<file, fileExists, ordersCache, lastOrdersLoad, hs,
                 usedUuids, nOps, written, currentStatus, configFile,
                 workFile, event, foreign, visits, call, ret>>

\* The module is evaluated: without BOT_TOKEN process.exit(1) (lines
\* 596-599); with it the handlers and routes are registered and
\* client.login is called (line 1238).
TokenGuard ==
  /\ proc.phase = "load"
  /\ proc' = [ proc EXCEPT !.phase = IF proc.token THEN "login"
                                                   ELSE "exited" ]
  /\ StartKeeps

\* client.login resolved: the then of line 1239 calls app.listen.
LoginOk ==
  /\ proc.phase = "login"
  /\ proc' = [ proc EXCEPT !.loggedIn = TRUE, !.phase = "listening" ]
  /\ StartKeeps

\* Mutant of LoginFailed: the server listens although the login failed.
LoginFailedListens ==
  /\ proc.phase = "login"
  /\ proc' = [ proc EXCEPT !.phase = "listening" ]
  /\ StartKeeps

\* client.login rejected: the catch of line 1240 calls process.exit(1).
LoginFailed ==
  /\ proc.phase = "login"
  /\ proc' = [ proc EXCEPT !.phase = "exited" ]
  /\ StartKeeps

\* SIGINT or SIGTERM (lines 1234-1235): client.destroy() and
\* process.exit(0); the handlers in flight are gone with the process.
Signal ==
  /\ proc.phase \in {"login", "listening"}
  /\ proc' = [ proc EXCEPT !.loggedIn = FALSE, !.phase = "exited" ]
  /\ hs' = [ h \in Handlers |-> Idle ]
  /\ out' = NoOut
  /\ UNCHANGED <<file, fileExists, ordersCache, lastOrdersLoad,
                 usedUuids, nOps, written, currentStatus, configFile,
                 workFile, event, foreign, visits, call, ret>>

\* The process starts, then serves one request at a time until it exits.
NextBoot ==
  \/ TokenGuard \/ LoginOk \/ LoginFailed \/ Signal
  \/ \E h \in Handlers : (Quiet /\ Start(h)) \/ Continue(h)

SpecBoot == InitBoot /\ [][NextBoot]_vars

----------------------------------------------------------------------------
(* Properties *)

CacheOrders == IF ordersCache = Null THEN <<>> ELSE ordersCache[1]
FileOrders  == IF fileExists THEN Parse(file) ELSE <<>>

\* The collection holds order uuid with the change request id made to it.
HasOp(orders, uuid, id) ==
  \E i \in 1..Len(orders) : orders[i].uuid = uuid /\ id \in orders[i].ops

UuidSeq(orders) == [ i \in 1..Len(orders) |-> orders[i].uuid ]

IsCreate(w) == w.op = "inquiry"

\* The uuids of the orders created and persisted, in insertion order.
Inserted == UuidSeq(SelectSeq(written, IsCreate))

\* Every request of the run was a mutation that reached its Store write.
AllMutated == \A k \in 1..nOps : \E i \in 1..Len(written) : written[i].id = k

\* C1: once mutating handlers have completed, whatever their interleaving,
\* the persisted and the cached collection contain the effect of every one
\* of them (as long as no more orders were inserted than the cap retains).
C1_BothEffects ==
  (Quiet /\ AllMutated /\ Len(Inserted) <= MAX_ORDERS_MEMORY) =>
    \A i \in 1..Len(written) :
      /\ HasOp(FileOrders, written[i].uuid, written[i].id)
      /\ ordersCache # Null => HasOp(CacheOrders, written[i].uuid, written[i].id)

\* C2: when a mutation is acknowledged (HTTP success, chat reply, button
\* update), orders.json holds the acknowledged change, so a crash right after
\* the acknowledgement does not lose it.
C2_AckedIsDurable ==
  (out.resp \in {"ok", "200"} /\ out.uuid # Null) =>
    HasOp(FileOrders, out.uuid, out.id)

\* C3: a notification that cannot be delivered after the order was saved
\* (channel message or direct message) still ends in the success response.
C3_NotifyFailureSwallowed ==
  out.thrown \in {"send", "dm"} => out.resp = "200"

\* C4: when the Store write of a mutation fails, the cache does not hold the
\* change that could not be persisted.
C4_CacheUntouchedOnWriteFail ==
  out.thrown = "writeFile" => ~HasOp(CacheOrders, out.uuid, out.id)

\* C5: the cached snapshot and orders.json never hold more than
\* MAX_ORDERS_MEMORY orders.
C5_CapHolds ==
  /\ Len(CacheOrders) <= MAX_ORDERS_MEMORY
  /\ Len(FileOrders) <= MAX_ORDERS_MEMORY

\* C6: after more orders than the cap have been inserted, the collection holds
\* exactly the MAX_ORDERS_MEMORY most recently inserted, in insertion order.
C6_Retention ==
  (Quiet /\ Len(Inserted) > MAX_ORDERS_MEMORY) =>
    UuidSeq(FileOrders) =
      SubSeq(Inserted, Len(Inserted) - MAX_ORDERS_MEMORY + 1, Len(Inserted))

\* C7: an order that is in orders.json stays there (and in a populated cache
\* that held it) in every step, unless it is among the oldest beyond the cap.
C7_NeverDeleted ==
  [][ /\ Uuids(Cap(FileOrders)) \subseteq Uuids(FileOrders')
      /\ (ordersCache # Null /\ ordersCache' # Null) =>
           (Uuids(Cap(FileOrders)) \cap Uuids(CacheOrders))
             \subseteq Uuids(CacheOrders') ]_vars

\* C8: when POST /inquiry has loaded the collection, what it saves is that
\* collection with one order appended: a uuid no other order has, status
\* "Pending", payment unpaid, paidAt null, notes empty; the orders before it
\* are the loaded ones, unchanged (the cached collection on a cache hit, else
\* what loadOrders made of orders.json: its capped content, or the empty
\* collection of its catch block), and the cache holds the result.
C8_CreateAppends ==
  [][ \A h \in Handlers :
        (hs'[h].op = "inquiry" /\ hs[h].pc # "writing" /\ hs'[h].pc = "writing")
        => LET new   == Parse(hs'[h].content)
               n     == Len(new)
               base  == SubSeq(new, 1, n - 1)
           IN  /\ n >= 1
               /\ new[n].uuid \notin Uuids(base)
               /\ new[n].status = "Pending"
               /\ new[n].payment = "Unpaid"
               /\ new[n].paidAt = Null
               /\ new[n].notes = ""
               /\ ordersCache' = Some(new)
               /\ IF hs[h].pc = "getChannel"
                  THEN base = CacheOrders
                  ELSE base \in {Cap(FileOrders), <<>>} ]_vars

\* C8 witness: an inquiry has appended its order to a non-empty collection.
C8_Witness ==
  \E h \in Handlers :
    /\ hs[h].op = "inquiry" /\ hs[h].pc = "writing"
    /\ Len(hs[h].content) >= 2

\* The orders of every collection in the state: cache, file, texts in flight.
AllOrders ==
  { CacheOrders[i] : i \in 1..Len(CacheOrders) }
  \cup { FileOrders[i] : i \in 1..Len(FileOrders) }
  \cup UNION { { Parse(hs[h].content)[i] : i \in 1..Len(hs[h].content) } :
               h \in Handlers }

\* C9: for every order, paidAt is non-null exactly when the payment is paid.
C9_PaidAtIffPaid ==
  \A o \in AllOrders : (o.paidAt # Null) <=> (o.payment = "Paid")

\* C9 witness: an order marked paid by a request of this run (persisted, with
\* its paidAt) is being marked unpaid, and the text to write clears paidAt.
C9_Witness ==
  \E h \in Handlers :
    /\ hs[h].op = "unpaid" /\ hs[h].pc = "writing"
    /\ \E i \in 1..Len(FileOrders), j \in 1..Len(hs[h].content) :
         /\ FileOrders[i].uuid = hs[h].uuid
         /\ FileOrders[i].payment = "Paid" /\ FileOrders[i].paidAt # Null
         /\ \E k \in FileOrders[i].ops : FileOrders[i].paidAt = Some(k) /\ k > 0
         /\ Parse(hs[h].content)[j].uuid = hs[h].uuid
         /\ Parse(hs[h].content)[j].payment = "Unpaid"
         /\ Parse(hs[h].content)[j].paidAt = Null

\* C10: a failed Store write reaches the caller as an error response.
C10_WriteFailureReported ==
  out.thrown = "writeFile" => out.resp \in {"500", "error"}

\* What loadOrders returns when it is called now (and its read succeeds).
ReadNow == IF CacheHit THEN CacheOrders ELSE Cap(FileOrders)

\* C12: when a mutating operation completes (its Store write resolves), a read
\* issued immediately afterwards in the same process returns a collection
\* that contains the change (as long as the cap has evicted nothing).
C12_ReadYourWrites ==
  [][ (Len(written') > Len(written) /\ Len(Inserted') <= MAX_ORDERS_MEMORY)
      => LET w == written'[Len(written')]
         IN  HasOp(ReadNow', w.uuid, w.id) ]_vars


\* The members of an order that the code stores (ops is history).
Stored(o) == [ uuid |-> o.uuid, status |-> o.status, payment |-> o.payment,
               clientDiscordId |-> o.clientDiscordId,
               createdAt |-> o.createdAt, paidAt |-> o.paidAt,
               notes |-> o.notes ]

\* The collections loadOrders can have returned to handler h in this step:
\* the cached one when h was answered at once, else what a read gives.
Loaded(h) ==
  IF hs[h].pc = "reading" THEN {Cap(FileOrders), <<>>} ELSE {CacheOrders}

\* Handler h receives the collection from loadOrders in this step.
Receives(h) ==
  /\ hs[h].pc \in {"idle", "getChannel", "reading"}
  /\ hs'[h].pc \in {"writing", "update"}

\* C16: an accept / decline changes exactly one order, the newest Pending
\* order of the submitter, to "Accepted" / "Declined", and leaves every other
\* order and every other member as loaded; when the submitter has no Pending
\* order the collection stays as loaded and nothing is written.
C16_DecisionChangesOne ==
  [][ \A h \in Handlers :
        (hs'[h].op \in Buttons /\ Receives(h)) =>
          \E base \in Loaded(h) :
            LET who  == hs'[h].who
                mine == { i \in 1..Len(base) :
                            base[i].clientDiscordId = who
                            /\ base[i].status = "Pending" }
                new  == Parse(hs'[h].content)
            IN  IF mine = {}
                THEN /\ hs'[h].pc = "update"
                     /\ ordersCache' = Some(base)
                     /\ file' = file /\ fileExists' = fileExists
                ELSE /\ hs'[h].pc = "writing"
                     /\ ordersCache' = Some(new)
                     /\ Len(new) = Len(base)
                     /\ \E k \in mine :
                          /\ \A j \in mine : j <= k
                          /\ Stored(new[k]) =
                               [ Stored(base[k]) EXCEPT !.status =
                                   IF hs'[h].op = "accept" THEN "Accepted"
                                                           ELSE "Declined" ]
                          /\ \A i \in 1..Len(base) :
                               i # k => new[i] = base[i] ]_vars

\* C16 witness: a decision is being written for a submitter who had two
\* Pending orders; the older one is still Pending in the text.
C16_Witness ==
  \E h \in Handlers :
    /\ hs[h].op \in Buttons /\ hs[h].pc = "writing"
    /\ \E i, k \in 1..Len(hs[h].content) :
         /\ i < k
         /\ Parse(hs[h].content)[k].uuid = hs[h].uuid
         /\ Parse(hs[h].content)[k].status \in {"Accepted", "Declined"}
         /\ Parse(hs[h].content)[i].clientDiscordId = hs[h].who
         /\ Parse(hs[h].content)[i].status = "Pending"


\* A collection as the code stores it.
StoredSeq(orders) == [ i \in 1..Len(orders) |-> Stored(orders[i]) ]

\* The write of handler h resolves in this step, and it re-applies the update
\* the request before it applied: the same command, on the same order, with
\* the same value.
Reapplied(h) ==
  LET r == hs[h]
      w == written[Len(written)]
  IN  /\ r.pc = "writing" /\ r.op \in ChatOps
      /\ Len(written') = Len(written) + 1
      /\ written'[Len(written')] = Wrote(r.uuid, r.id, r.op)
      /\ w.op = r.op /\ w.uuid = r.uuid /\ w.id = r.id - 1
      /\ \E i \in 1..Len(FileOrders) :
           /\ FileOrders[i].uuid = r.uuid
           /\ r.op = "setstatus" => FileOrders[i].status = r.val
           /\ r.op = "note" => FileOrders[i].notes = r.val

\* C17: applying an update command a second time in a row with the same
\* arguments leaves the stored collection as the first application left it,
\* with the same number of orders.
C17_Idempotent ==
  [][ \A h \in Handlers :
        Reapplied(h) => StoredSeq(FileOrders') = StoredSeq(FileOrders) ]_vars

\* C18: no step changes the createdAt of an order (wherever the order is held:
\* cache, orders.json, a text being written), and an update command or a
\* decision hands to saveOrders the loaded orders with their ids and
\* createdAt, in the same positions.
C18_IdAndCreatedAtKept ==
  [][ /\ \A o \in AllOrders : \A p \in AllOrders' :
            o.uuid = p.uuid => o.createdAt = p.createdAt
      /\ \A h \in Handlers :
            (hs'[h].op \in ChatOps \cup Buttons /\ Receives(h)
               /\ hs'[h].pc = "writing") =>
              \E base \in Loaded(h) :
                LET new == Parse(hs'[h].content)
                IN  /\ Len(new) = Len(base)
                    /\ \A i \in 1..Len(base) :
                         /\ new[i].uuid = base[i].uuid
                         /\ new[i].createdAt = base[i].createdAt ]_vars

\* C18 witness: an order created in this run has since been changed by
\* another request, and is in orders.json with both in its history.
C18_Witness ==
  \E i \in 1..Len(FileOrders) :
    /\ FileOrders[i].createdAt > 0
    /\ \E k \in FileOrders[i].ops : k > FileOrders[i].createdAt


\* What the claim requires of a submission: every required member present and
\* a non-empty text, the submitter id a string of 17 to 20 decimal digits.
ValidSubmission(body) ==
  /\ \A f \in Required : body[f].t = "string" /\ Len(body[f].v) > 0
  /\ Len(body.clientDiscordId.v) \in 17..20
  /\ \A i \in 1..Len(body.clientDiscordId.v) :
       body.clientDiscordId.v[i] \in Digit

\* C13: a submission that fails validation gets a validation error (so no
\* order is created for it).
C13_InvalidRejected ==
  (call # Null /\ ret # Null /\ call[1].fn = "validate") =>
    (~ValidSubmission(call[1].body) => ret[1] \in {"400 missing", "400 invalid id"})


\* orders.json holds a JSON array (of orders).
WellFormed(f) == f.t = "json" /\ f.v.t = "array"

\* C11: when orders.json is missing, unreadable or malformed, loadOrders
\* returns the empty sequence and the operation that follows does not throw.
C11_ReadNeverFails ==
  (call # Null /\ ret # Null /\ call[1].fn = "load") =>
    (~WellFormed(call[1].f) =>
       ret[1].orders = Arr(<<>>) /\ ~ret[1].thrown)


\* p is a prefix of u, character by character.
IsPrefix(p, u) == Len(p) <= Len(u) /\ \A i \in 1..Len(p) : u[i] = p[i]

\* C14: the lookup by prefix matches the uuid character by character (case
\* matters); of several matching orders the first in collection order is the
\* one shown by !order and the one an update command changes, the others
\* staying as they are; with no match the reply is not-found and nothing is
\* saved.
C14_PrefixLookup ==
  (call # Null /\ ret # Null /\ call[1].fn = "find") =>
    LET o    == call[1].orders
        hits == { i \in 1..Len(o) : IsPrefix(call[1].arg, o[i].uuid) }
        r    == ret[1]
    IN  IF hits = {}
        THEN r.reply = "notfound" /\ r.order = Null /\ r.saved = Null
        ELSE \E k \in hits :
               /\ \A j \in hits : k <= j
               /\ r.reply # "notfound"
               /\ r.order = Some(o[k])
               /\ call[1].cmd # "order" =>
                    /\ r.saved # Null
                    /\ Len(r.saved[1]) = Len(o)
                    /\ r.saved[1][k] # o[k]
                    /\ r.saved[1][k].uuid = o[k].uuid
                    /\ \A i \in 1..Len(o) : i # k => r.saved[1][i] = o[i]

\* C14 witness: an update command whose prefix matches two orders of the
\* collection, the first of them not at the front.
C14_Witness ==
  /\ call # Null /\ ret # Null /\ call[1].fn = "find"
  /\ call[1].cmd = "note"
  /\ Len(call[1].orders) = 3
  /\ ~IsPrefix(call[1].arg, call[1].orders[1].uuid)
  /\ IsPrefix(call[1].arg, call[1].orders[2].uuid)
  /\ IsPrefix(call[1].arg, call[1].orders[3].uuid)
  /\ ret[1].saved # Null

\* C15: the scan selects the last order of the collection whose submitter id
\* equals the given id and whose status is exactly "Pending" (whatever other
\* orders of the submitter come before or after it), and selects none (0)
\* when there is no such order.
C15_LatestPending ==
  (call # Null /\ ret # Null /\ call[1].fn = "scan") =>
    LET o    == call[1].orders
        m(i) == o[i].clientDiscordId = call[1].discordId
                /\ o[i].status = "Pending"
        k    == ret[1]
    IN  IF \A i \in 1..Len(o) : ~m(i)
        THEN k = 0
        ELSE /\ k \in 1..Len(o)
             /\ m(k)
             /\ \A j \in (k + 1)..Len(o) : ~m(j)

\* C15 witness: the submitter's Pending order is older than their Accepted
\* one, and the scan has selected the Pending one.
C15_Witness ==
  /\ call # Null /\ ret # Null /\ call[1].fn = "scan"
  /\ Len(call[1].orders) = 2
  /\ \A i \in 1..2 : call[1].orders[i].clientDiscordId = call[1].discordId
  /\ call[1].orders[1].status = "Pending"
  /\ call[1].orders[2].status = "Accepted"
  /\ ret[1] = 1

\* The state a caller who is not the owner must not change: the orders
\* collection and file, the config, the availability status, the featured
\* work, and no handler left running that would change them later.
Guarded == <<file, fileExists, ordersCache, lastOrdersLoad, hs, currentStatus,
             configFile, workFile>>

\* The step handles a chat command (a message with the prefix) or a button
\* press of someone other than the owner.
FromOther == /\ event' # event
             /\ event'[1].command
             /\ event'[1].author # OWNER_ID

\* C19, as stated: a chat command or a button press from anyone but the owner
\* changes no state and is answered with a refusal.
C19_AlwaysRefused ==
  [][ FromOther => UNCHANGED Guarded /\ out'.resp = "owner only" ]_vars

\* C19, amended: a chat command or a button press from anyone but the owner
\* changes no state; it is answered with a refusal, except that a message
\* written by a bot is ignored without an answer.
C19_OwnerGated ==
  [][ FromOther =>
        /\ UNCHANGED Guarded
        /\ IF event'[1].kind = "message" /\ event'[1].bot
           THEN out' = NoOut
           ELSE out'.resp = "owner only" /\ out'.id = event'[1].id ]_vars

\* Another user's command is refused while the owner has changed the status.
C19_Witness ==
  /\ event # Null
  /\ event[1].kind = "message" /\ event[1].command
  /\ event[1].author = "u2"
  /\ out.resp = "owner only"
  /\ currentStatus = "slow"

Statuses == {"open", "slow", "closed"}

\* The state a status command names.
Named(cmd) == CASE cmd = "open"  -> "open"
                [] cmd = "slow"  -> "slow"
                [] cmd = "close" -> "closed"

\* The step starts the process anew: its memory is fresh and nothing is sent.
Restarted == /\ ordersCache' = Null /\ lastOrdersLoad' = 0
             /\ hs' = [ h \in Handlers |-> Idle ]
             /\ nOps' = nOps /\ out' = NoOut

\* The step runs the owner's !open, !slow or !close.
StatusCommanded == /\ event' # event
                   /\ event'[1].kind = "message" /\ event'[1].command
                   /\ event'[1].author = OWNER_ID /\ ~event'[1].bot
                   /\ event'[1].cmd \in StatusCommands

\* C20: the availability status is always open, slow or closed; it is open
\* initially and after every restart; !open, !slow and !close move it from any
\* state to the state they name; GET /status reports the current status.
C20_Availability ==
  /\ currentStatus = "open"
  /\ [][ /\ currentStatus' \in Statuses
         /\ Restarted => currentStatus' = "open"
         /\ StatusCommanded => currentStatus' = Named(event'[1].cmd)
         /\ (nOps' = nOps + 1 /\ out'.op = "GET /status") =>
               out'.resp = currentStatus /\ currentStatus' = currentStatus
     ]_vars

\* GET /status reports closed after !slow and !close.
C20_Witness ==
  /\ out.op = "GET /status" /\ out.resp = "closed"
  /\ event # Null /\ event[1].cmd = "close"

\* C21: when no channel is configured, the POST /inquiry or POST /contact
\* that reaches getChannel is answered 500 with the not-configured error,
\* whose words tell to run !setchannel; the handler has returned (nothing is
\* left unhandled, and the next request can be served).
C21_NotConfiguredReported ==
  [][ \A h \in Handlers :
        (hs[h].pc = "getChannel" /\ hs'[h].pc # "getChannel"
         /\ configFile = Null) =>
          /\ hs'[h] = Idle
          /\ out'.op = hs[h].op /\ out'.id = hs[h].id
          /\ out'.resp = "500"
          /\ Includes(out'.text, "configured")
          /\ Includes(out'.text, "!setchannel") ]_vars

\* The second request of a run is a POST /contact answered with that error.
C21_Witness ==
  /\ configFile = Null
  /\ out.op = "contact" /\ out.id = 2
  /\ out.thrown = "getChannel"
  /\ Includes(out.text, "!setchannel")
  /\ Quiet

\* C24: no step of a POST /contact handler, whether the request succeeds or
\* fails, changes the cache, its timestamp or orders.json.
C24_ContactKeepsOrders ==
  [][ \A h \in Handlers :
        (hs'[h] # hs[h] /\ (hs[h].op = "contact" \/ hs'[h].op = "contact")) =>
          UNCHANGED <<file, fileExists, ordersCache, lastOrdersLoad>> ]_vars

\* A POST /contact has succeeded while orders exist.
C24_Witness ==
  /\ out.op = "contact" /\ out.resp = "200"
  /\ FileOrders # <<>>
  /\ ordersCache # Null

\* The statuses are equal when letter case is ignored.
SameStatus(a, b) ==
  Len(a) = Len(b) /\ \A i \in 1..Len(a) : Lower(a[i]) = Lower(b[i])

\* The orders a listing is about, in the order of the collection.
Matching(orders, filter) ==
  SelectSeq(orders, LAMBDA o : filter = Null \/ SameStatus(o.status, filter[1]))

Listed == call # Null /\ ret # Null /\ call[1].fn = "list"

\* C22, as stated: the listing holds every order (no status given) or every
\* order whose status is the given one ignoring case, in insertion order, none
\* omitted.
C22_ListsAll ==
  Listed => ret[1].lines = Matching(call[1].orders, call[1].filter)

\* C22, amended: the listing counts every such order and shows the last
\* LIST_SHOWN (10) of them, in insertion order.
C22_ListsLast ==
  Listed =>
    LET m == Matching(call[1].orders, call[1].filter) IN
    /\ ret[1].total = Len(m)
    /\ Len(ret[1].lines) = IF Len(m) > LIST_SHOWN THEN LIST_SHOWN ELSE Len(m)
    /\ \A i \in 1..Len(ret[1].lines) :
         ret[1].lines[i] = m[Len(m) - Len(ret[1].lines) + i]

\* A listing by a status written in another case than the orders' that found
\* two orders out of three, and shows both.
C22_Witness ==
  /\ Listed
  /\ call[1].filter = Some(<<"a">>)
  /\ Len(call[1].orders) = 3
  /\ call[1].orders[1].status = <<"A">>
  /\ call[1].orders[2].status = <<"B">>
  /\ call[1].orders[3].status = <<"a">>
  /\ ret[1].total = 2
  /\ ret[1].lines = << call[1].orders[1], call[1].orders[3] >>

\* C23: what a read of the Store makes of the text saveOrders writes is the
\* collection saveOrders was given: the same orders, in the same order, with
\* the same field values.
C23_RoundTrip ==
  [][ \A h \in Handlers :
        (hs[h].pc # "writing" /\ hs'[h].pc = "writing") =>
          Cap(Parse(hs'[h].content)) = ordersCache'[1] ]_vars

\* C25: a category outside the enumerated set is stored as given and the
\* notification uses the default display metadata.
C25_UnknownCategoryDefault ==
  (call # Null /\ ret # Null /\ call[1].fn = "meta") =>
    (call[1].serverType \notin Categories =>
       /\ ret[1].serviceType = call[1].serverType
       /\ ret[1].meta = DefaultMeta)

\* The cache holds a collection, possibly an empty one.
Populated == ordersCache # Null

\* The cache was loaded or written less than the TTL ago.
Young == now - lastOrdersLoad < CACHE_TTL

\* In this step handler h goes on with a collection it did not read from the
\* Store: it leaves loadOrders for its write, its update or its answer.
ServedFromCache(h) ==
  /\ hs[h].pc \in {"idle", "getChannel"}
  /\ \/ hs'[h].pc \in {"writing", "update"}
     \/ /\ hs'[h].pc = "idle" /\ out'.id = h /\ nOps' = h
        /\ out'.resp \in {"list", "notfound"}

\* C26: while the cache is populated (an empty collection included) and
\* younger than the TTL, no read of the Store starts and the callers of
\* loadOrders go on with the cached snapshot; otherwise nobody is served from
\* the cache, and when the read of the Store returns to !orders the cache
\* holds the capped content of orders.json under the time the load took.
C26_CacheGet ==
  [][ \A h \in Handlers :
        /\ (Populated /\ Young /\ hs[h].pc # "reading") =>
              hs'[h].pc # "reading"
        /\ ServedFromCache(h) => Populated /\ Young
        /\ (ServedFromCache(h) /\ out'.resp = "list") =>
              UNCHANGED <<ordersCache, lastOrdersLoad>>
        /\ (hs[h].pc = "reading" /\ hs[h].op = "orders"
            /\ hs'[h].pc # "reading") =>
              /\ ordersCache' = Some(Cap(FileOrders))
              /\ lastOrdersLoad' = hs[h].t0
              /\ out'.resp = "list" ]_vars

\* The second request, an !orders, is answered while the cache holds an empty
\* collection that is younger than the TTL.
C26_Witness ==
  /\ ordersCache = Some(<<>>) /\ Young
  /\ out.op = "orders" /\ out.id = 2 /\ out.resp = "list"
  /\ Quiet

\* The orders this process created and persisted after the foreign change.
CreatedSince ==
  { i \in 1..Len(written) :
      written[i].op = "inquiry" /\ written[i].id > foreign[1].at }

\* C27: once a change another writer made to orders.json is a TTL old, a read
\* issued now returns it, whatever this process has read and written since
\* (unless the process has created so many orders since that the cap evicts
\* it).
C27_ForeignChangeSeen ==
  (foreign # Null /\ foreign[1].age >= CACHE_TTL
   /\ Cardinality(CreatedSince) < MAX_ORDERS_MEMORY) =>
     foreign[1].uuid \in Uuids(ReadNow)

\* C28: a POST /inquiry handler starts channel.send only when its order is in
\* orders.json, and whatever fails the request for another reason than
\* validation or storage fails it after its order was created.
C28_CreateComesFirst ==
  [][ \A h \in Handlers :
        /\ (hs'[h].op = "inquiry" /\ hs[h].pc # "send"
            /\ hs'[h].pc = "send") =>
              HasOp(FileOrders', hs'[h].uuid, hs'[h].id)
        /\ (hs[h].op = "inquiry" /\ hs'[h] = Idle /\ out'.id = hs[h].id
            /\ out'.resp = "500" /\ out'.thrown # "writeFile") =>
              \E i \in 1..Len(written') :
                 written'[i].id = hs[h].id /\ written'[i].op = "inquiry" ]_vars

C30_ErrorMeansNoOrder ==
  [][ (out'.op = "inquiry" /\ out'.resp \in {"400", "500"}) =>
        \A i \in 1..Len(CacheOrders') + Len(FileOrders') :
          LET o == IF i <= Len(CacheOrders') THEN CacheOrders'[i]
                   ELSE FileOrders'[i - Len(CacheOrders')]
          IN  out'.id \notin o.ops ]_vars

\* C32: with one handler at a time and no I/O failure, whenever an order
\* operation has completed (no handler is in flight and the cache is
\* populated) the cached snapshot equals the collection in orders.json.
C32_CacheEqualsStore ==
  (Quiet /\ ordersCache # Null) => CacheOrders = FileOrders

\* C31: when the owner presses Accept or Decline on the notification of order
\* X, the handler writes a collection in which X, and no other order, has
\* taken the decision of this press.
C31_PressedOrderChanged ==
  [][ \A h \in Handlers :
        (hs'[h].op \in Buttons /\ hs'[h].arg # Null /\ Receives(h)) =>
          /\ hs'[h].pc = "writing"
          /\ LET new == Parse(hs'[h].content) IN
             \A i \in 1..Len(new) :
               (hs'[h].id \in new[i].ops) <=> (new[i].uuid = hs'[h].arg[1])
    ]_vars

\* What an update command (cmd, with the words val) makes of the stored
\* members b of its order: n.
Targeted(cmd, val, b, n) ==
  CASE cmd = "paid"      -> /\ n.paidAt # Null
                            /\ n = [ b EXCEPT !.payment = "Paid",
                                              !.paidAt = n.paidAt ]
    [] cmd = "unpaid"    -> n = [ b EXCEPT !.payment = "Unpaid",
                                           !.paidAt = Null ]
    [] cmd = "setstatus" -> n = [ b EXCEPT !.status = val ]
    [] cmd = "note"      -> n = [ b EXCEPT !.notes = val ]

\* C33: a !paid, !unpaid, !setstatus or !note that finds its order hands to
\* saveOrders the loaded collection with only the targeted members of that
\* one order changed (payment and paidAt, status, or notes): same length, same
\* positions, every other order and member as loaded; the cache holds it, and
\* when the write resolves orders.json holds it.
C33_UpdateChangesTarget ==
  [][ \A h \in Handlers :
        /\ (hs'[h].op \in ChatOps /\ Receives(h)) =>
             \E base \in Loaded(h) :
               LET new == Parse(hs'[h].content) IN
               /\ hs'[h].pc = "writing"
               /\ ordersCache' = Some(new)
               /\ Len(new) = Len(base)
               /\ \E k \in 1..Len(base) :
                    /\ base[k].uuid = hs'[h].uuid
                    /\ Targeted(hs'[h].op, hs'[h].val,
                                Stored(base[k]), Stored(new[k]))
                    /\ \A i \in 1..Len(base) : i # k => new[i] = base[i]
        /\ (hs[h].op \in ChatOps /\ hs[h].pc = "writing"
            /\ hs'[h].pc # "writing") =>
             /\ fileExists'
             /\ Parse(file') = Parse(hs[h].content)
             /\ UNCHANGED ordersCache ]_vars

\* A !setstatus is being written for the order a POST /inquiry of this run
\* appended to the two orders of orders.json.
C33_Witness ==
  \E h \in Handlers :
    /\ hs[h].op = "setstatus" /\ hs[h].pc = "writing"
    /\ Len(hs[h].content) = 3
    /\ Parse(hs[h].content)[3].uuid = hs[h].uuid
    /\ Parse(hs[h].content)[3].status = hs[h].val
    /\ Parse(hs[h].content)[1].status = "Pending"

\* The commands that look an order up by the prefix of its id.
Lookups == ChatOps \cup {"order"}

\* The id prefix arg is given and some order of the collection starts with it.
Hit(orders, arg) ==
  arg # Null /\ \E i \in 1..Len(orders) : IsPrefix(arg, orders[i].uuid)

\* C34: an !order, !paid, !unpaid, !setstatus or !note without its argument,
\* or whose id prefix matches no order of the loaded collection, is answered
\* with the usage or the not-found reply; it starts no write, leaves
\* orders.json as it is, and the cache holds the loaded collection untouched.
C34_MissReported ==
  [][ \A h \in Handlers :
        LET base == IF hs[h].pc = "reading" THEN Cap(FileOrders)
                                            ELSE CacheOrders
        IN
        /\ (hs'[h].op \in ChatOps /\ Receives(h)) => Hit(base, hs'[h].arg)
        /\ (hs[h].pc = "reading" /\ hs[h].op \in Lookups
            /\ hs'[h].pc # "reading" /\ ~Hit(base, hs[h].arg)) =>
              /\ hs'[h] = Idle
              /\ out'.id = hs[h].id /\ out'.resp = "notfound"
              /\ ordersCache' = Some(base)
        /\ (hs[h].pc = "idle" /\ nOps' = h /\ nOps = h - 1
            /\ hs'[h] = Idle /\ out'.op \in ChatOps) =>
              out'.resp \in {"usage", "notfound"}
        /\ (out'.id = h /\ out'.op \in Lookups
            /\ out'.resp \in {"usage", "notfound"}) =>
              /\ hs'[h] = Idle
              /\ UNCHANGED <<file, fileExists>>
              /\ hs[h].pc = "idle" => UNCHANGED <<ordersCache, lastOrdersLoad>>
    ]_vars

\* The second request, a !note whose prefix matches neither order of
\* orders.json, is answered not-found after the collection was read.
C34_Witness ==
  /\ out.op = "note" /\ out.id = 2 /\ out.resp = "notfound"
  /\ Len(FileOrders) = 2
  /\ ordersCache = Some(FileOrders)
  /\ lastOrdersLoad = now
  /\ Quiet

\* C35: whenever no request is in flight, the count stored in visits.json is
\* the number of POST /visit requests that were not rate-limited and were
\* answered with success; a rate-limited request is answered with the stored
\* count and leaves it as it is.
C35_VisitsCounted ==
  /\ Quiet => visits.count = visits.answered
  /\ (out.op = "visit limited" /\ out.resp = "200") =>
        out.text = << visits.count >>

\* The server listens only in a process that has BOT_TOKEN and whose login
\* has resolved; a process without BOT_TOKEN never leaves its start but to
\* exit.
ListensLoggedIn ==
  /\ proc.phase = "listening" => proc.token /\ proc.loggedIn
  /\ ~proc.token => proc.phase \in {"load", "exited"} /\ ~proc.loggedIn

\* C36: app.listen is called only after client.login has resolved; without
\* BOT_TOKEN, or when the login fails, the process exits, and an exited
\* process does nothing more; a request is taken, and an order written, only
\* by a process that listens and whose bot is logged in.
C36_ListenAfterLogin ==
  /\ ListensLoggedIn
  /\ [][ /\ ListensLoggedIn'
         /\ proc.phase # "exited"
         /\ (proc'.phase = "listening" /\ proc.phase # "listening") =>
               proc.phase = "login" /\ proc'.loggedIn
         /\ (proc.phase = "load" /\ ~proc.token) => proc'.phase = "exited"
         /\ (proc.phase = "login" /\ proc' # proc) =>
               \/ proc'.phase = "listening" /\ proc'.loggedIn
               \/ proc'.phase = "exited"
         /\ (nOps' # nOps \/ written' # written \/ file' # file) =>
               /\ proc.phase = "listening" /\ proc.loggedIn
               /\ proc' = proc ]_vars

\* A process that went through its start has created an order and then
\* received a signal.
C36_Witness ==
  /\ proc.token /\ proc.phase = "exited"
  /\ \E i \in 1..Len(written) : written[i].id > 0 /\ written[i].op = "inquiry"
  /\ HasOp(FileOrders, written[Len(written)].uuid, written[Len(written)].id)

====
